---- MODULE Spec2Model ----
(***************************************************************************)
(* State-machine model of the risk-monitor service mesh core:              *)
(*   - CircuitBreaker and BaseGrpcClient._make_call                        *)
(*       (src/src/risk_monitor/infrastructure/grpc_clients.py)             *)
(*   - the class-level channel pool of BaseGrpcClient and connect /        *)
(*     disconnect                                                          *)
(*   - InterServiceClientManager                                           *)
(* Time is an integer clock `now` (time.time()), advanced by Tick.         *)
(* Every coroutine is cut at its await points: the code between two awaits *)
(* runs to completion on the single event loop and is one action.          *)
(***************************************************************************)
EXTENDS Integers, Sequences, FiniteSets, TLC

\* ------------------------------------------------------------------ bounds
MaxThreshold == 2
MaxTimeout == 2
MaxTime == 4
MaxFailures == 4
MaxCalls == 4
NumCallers == 2
NumAddrs == 2
NumClients == 2
MaxChannels == 2
NumTasks == 2
MaxKeyLen == 3
MaxTtl == 1
MaxConfigTime == 2
MaxConfigCalls == 2
MaxRegistryTime == 6
MaxSubscriptions == 2
NumConfigTasks == 2
MaxInterval == 2

\* ------------------------------------------------------- program constants
DEFAULT_CIRCUIT_BREAKER_THRESHOLD == 5
DEFAULT_CIRCUIT_BREAKER_TIMEOUT == 60

\* --------------------------------------------------------------- variables
VARIABLES
    \* CircuitBreaker fields (grpc_clients.py:95-99)
    failure_threshold, timeout, failure_count, last_failure_time, state,
    \* time.time()
    now,
    \* BaseGrpcClient counters (grpc_clients.py:141-142)
    call_count, error_count,
    \* one entry per concurrent caller of _make_call: "idle" or "executing"
    \* (suspended at `await self._execute_call`, grpc_clients.py:237)
    call_pc,
    \* observation of the last operation: its name, its caller and what it
    \* returned or raised
    op, who, arg, ret,
    \* history: the breaker state before the last operation
    prev,
    \* history: the number of on_failure() calls since the breaker was
    \* constructed or on_success() was last called
    run,
    \* BaseGrpcClient._channels, the class-level pool: address -> channel
    \* (0: no entry), grpc_clients.py:131
    channels,
    \* every channel object created so far, in creation order: the address
    \* it was created for and whether close() was called on it
    chans,
    \* per client object: its address (0: not constructed), _channel
    \* (0: None), _connected, and where its connect() stands:
    \* "idle" or "probing" (suspended at `await self._test_connection()`)
    c_addr, c_channel, c_connected, conn_pc,
    \* InterServiceClientManager: whether a service_discovery was given,
    \* _trading_client / _test_coordinator_client (per service, 0: None),
    \* _clients (per service, 0: no entry), connection_pool_size
    m_discovery, m_slot, m_clients, connection_pool_size,
    \* per task calling get_<service>_client: "idle", "lookup" (suspended at
    \* `await self.service_discovery.get_service`) or "connecting" (suspended
    \* inside `await client.connect()`), the service asked for and the client
    \* whose connect() it awaits, and whether its host and port came from
    \* the registry (service_info) rather than from the static settings
    t_pc, t_svc, t_client, t_found,
    \* cleanup(): where it stands and the coroutines its gather awaits
    cl_pc, cl_todo,
    \* observation: the client returned by the last get_<service>_client
    \* (0: none) and the message of the last exception raised by connect()
    \* or get_<service>_client (<<>>: none); what the last step of a manager
    \* operation was given: the use_fallback argument, the result of the
    \* registry lookup, the outcome of the probe or of the close() calls
    got, err, seen,
    \* history: per service the client get_<service>_client last returned,
    \* forgotten once disconnect() is called on it; the clients handed out
    held, handed,
    \* a ConfigurationValue under validation: its key (a sequence of
    \* characters), value and type, and what validate() or _validate_key()
    \* answered
    v_key, v_value, v_type, v_ret,
    \* ConfigurationServiceClient: _connected, _http_client ("none" or
    \* "open"), _cache and _cache_ttl (dicts keyed by cache key, here the
    \* pair <<key, environment>>), cache_hits, _cache_misses,
    \* _default_cache_ttl, _subscribers (in insertion order: a pattern and
    \* the callbacks subscribed under it)
    cfg_connected, cfg_http, cfg_cache, cfg_cache_ttl, cache_hits, cache_misses,
    default_cache_ttl, subscribers,
    \* per task calling get_configuration or trigger_update_notification:
    \* "idle" or "fetching" (suspended at `await self._http_client.get`),
    \* its key and environment arguments and whether the fetch belongs to a
    \* trigger_update_notification
    g_pc, g_key, g_env, g_notify,
    \* disconnect(): "idle" or "closing" (suspended at `await aclose()`)
    d_pc,
    \* observation of the last configuration operation: its key and
    \* environment arguments, the ConfigurationValue it returned, the
    \* callbacks it invoked, in order, and those of them that raised
    key_arg, env_arg, cfg_val, invoked, cb_raised,
    \* the shared registry store: registry key (service name and instance)
    \* -> record; the service_name argument of the last discover_services
    \* ("none": no filter) and the records it returned, by key
    reg_store, reg_filter, reg_result,
    \* the ServiceDiscovery object: its store client ("none", "unreachable":
    \* created but the ping failed, "connected"); whether the server holds a
    \* ServiceDiscovery object, and the server's position ("new", "running",
    \* "stopped")
    sd_client, server_sd, server_pc,
    \* settings.health_check_interval, in ticks of the heartbeat clock
    health_check_interval,
    \* the heartbeat loop: "none", "sleeping" (suspended at the interval
    \* sleep), "writing" (suspended at the store write) or "done"; the time
    \* left to sleep; whether cancellation was requested; whether the last
    \* heartbeat write of the loop succeeded
    hb_pc, hb_sleep, hb_cancel, hb_ok,
    \* whether the instance's process is alive, and the time each record of
    \* the store has left to live
    alive, reg_ttl,
    \* DualProtocolServer.run(): whether shutdown_event is set; the tasks of
    \* its gather, start_http_server ("none", "starting", "serving",
    \* "returned", "failed"), start_grpc_server ("none", "creating",
    \* "waiting", "returned", "failed") and _wait_for_shutdown ("none",
    \* "waiting", "returned"); self.http_server ("none", "created",
    \* "should_exit") and self.grpc_server ("none", "created", "stopping")
    shutdown_event, http_pc, grpc_pc, wait_pc, http_server, grpc_server

breakerVars == <<failure_threshold, timeout, failure_count, last_failure_time, state>>
clientVars == <<call_count, error_count, call_pc>>
obsVars == <<op, who, arg, ret, prev>>
poolVars == <<channels, chans>>
connVars == <<c_addr, c_channel, c_connected, conn_pc>>
mgrVars == <<m_discovery, m_slot, m_clients, connection_pool_size>>
taskVars == <<t_pc, t_svc, t_client, t_found>>
cleanupVars == <<cl_pc, cl_todo>>
histVars == <<got, err, seen, held, handed>>
valVars == <<v_key, v_value, v_type, v_ret>>
cfgVars == <<cfg_connected, cfg_http, cfg_cache, cfg_cache_ttl, cache_hits, cache_misses,
             default_cache_ttl, subscribers>>
fetchVars == <<g_pc, g_key, g_env, g_notify>>
cfgObsVars == <<key_arg, env_arg, cfg_val, invoked, cb_raised>>
regVars == <<reg_store, reg_filter, reg_result>>
objVars == <<sd_client, server_sd, server_pc>>
loopVars == <<hb_pc, hb_sleep, hb_cancel, hb_ok>>
srvVars == <<shutdown_event, http_pc, grpc_pc, wait_pc, http_server, grpc_server>>
sdVars == <<objVars, health_check_interval, loopVars, alive, reg_ttl, srvVars>>
vars == <<breakerVars, now, clientVars, obsVars, run, poolVars, connVars, mgrVars,
          taskVars, cleanupVars, histVars, valVars, cfgVars, fetchVars, d_pc, cfgObsVars,
          regVars, sdVars>>

Callers == 1..NumCallers
Addrs == 1..NumAddrs
Clients == 1..NumClients
Tasks == 1..NumTasks
Services == {"trading-engine", "test-coordinator"}

\* The elements of a sequence.
Range(s) == {s[i] : i \in 1..Len(s)}

ConfigIdle == UNCHANGED <<valVars, cfgVars, fetchVars, d_pc, cfgObsVars, regVars, sdVars>>
PoolIdle ==
    /\ UNCHANGED <<poolVars, connVars, mgrVars, taskVars, cleanupVars, histVars>>
    /\ ConfigIdle
ManagerIdle == UNCHANGED <<mgrVars, taskVars, cleanupVars>>

\* ---------------------------------------------------------- CircuitBreaker
\* Faulty variant: the cooldown test is >= instead of >.
can_execute_ge(st, lft, t, to) ==
    IF st = "CLOSED" THEN [ret |-> TRUE, state |-> st]
    ELSE IF st = "OPEN" THEN
        IF t - lft >= to THEN [ret |-> TRUE, state |-> "HALF_OPEN"]
        ELSE [ret |-> FALSE, state |-> st]
    ELSE [ret |-> TRUE, state |-> st]

\* Faulty variant: an OPEN breaker lets the call through without looking at
\* the cooldown.
can_execute_no_cooldown(st, lft, t, to) ==
    IF st = "CLOSED" THEN [ret |-> TRUE, state |-> st]
    ELSE IF st = "OPEN" THEN [ret |-> TRUE, state |-> "HALF_OPEN"]
    ELSE [ret |-> TRUE, state |-> st]

\* can_execute(): the value returned and the state it leaves.
can_execute(st, lft, t, to) ==
    IF st = "CLOSED" THEN [ret |-> TRUE, state |-> st]
    ELSE IF st = "OPEN" THEN
        IF t - lft > to THEN [ret |-> TRUE, state |-> "HALF_OPEN"]
        ELSE [ret |-> FALSE, state |-> st]
    ELSE [ret |-> TRUE, state |-> st]

\* Faulty variant: the failure count is not reset.
on_success_keeps_count(fc, st) == [failure_count |-> fc, state |-> "CLOSED"]

\* on_success(): the fields it writes.
on_success(fc, st) == [failure_count |-> 0, state |-> "CLOSED"]

\* Faulty variant: the threshold test is > instead of >=.
on_failure_late(fc, lft, st, t, thr) ==
    [failure_count |-> fc + 1,
     last_failure_time |-> t,
     state |-> IF fc + 1 > thr THEN "OPEN" ELSE st]

\* Faulty variant: the count starts again when the breaker opens.
on_failure_resets_count(fc, lft, st, t, thr) ==
    IF fc + 1 >= thr
    THEN [failure_count |-> 0, last_failure_time |-> t, state |-> "OPEN"]
    ELSE [failure_count |-> fc + 1, last_failure_time |-> t, state |-> st]

\* on_failure(): the fields it writes.
on_failure(fc, lft, st, t, thr) ==
    [failure_count |-> fc + 1,
     last_failure_time |-> t,
     state |-> IF fc + 1 >= thr THEN "OPEN" ELSE st]

BoolStr(b) == IF b THEN "true" ELSE "false"

InitBreaker ==
    /\ failure_threshold \in 1..MaxThreshold
    /\ timeout \in 0..MaxTimeout
    /\ failure_count = 0
    /\ last_failure_time = 0
    /\ state = "CLOSED"
    /\ run = 0

InitClock == now = 1

InitClient ==
    /\ call_count = 0
    /\ error_count = 0
    /\ call_pc = [c \in Callers |-> "idle"]

InitObs ==
    /\ op = "init"
    /\ who = 0
    /\ arg = "none"
    /\ ret = "none"
    /\ prev = "CLOSED"

\* time.time() advances.
Tick ==
    /\ now < MaxTime
    /\ now' = now + 1
    /\ op' = "tick"
    /\ who' = 0
    /\ arg' = "none"
    /\ prev' = state
    /\ ret' = "none"
    /\ UNCHANGED <<breakerVars, clientVars, run>>
    /\ PoolIdle

\* A direct call of CircuitBreaker.can_execute().
CanExecute ==
    LET r == can_execute(state, last_failure_time, now, timeout) IN
    /\ state' = r.state
    /\ op' = "can_execute"
    /\ who' = 0
    /\ arg' = "none"
    /\ prev' = state
    /\ ret' = BoolStr(r.ret)
    /\ UNCHANGED <<failure_threshold, timeout, failure_count, last_failure_time,
                   now, clientVars, run>>
    /\ PoolIdle

\* A direct call of CircuitBreaker.on_success().
OnSuccess ==
    LET r == on_success(failure_count, state) IN
    /\ failure_count' = r.failure_count
    /\ state' = r.state
    /\ run' = 0
    /\ op' = "on_success"
    /\ who' = 0
    /\ arg' = "none"
    /\ prev' = state
    /\ ret' = "none"
    /\ UNCHANGED <<failure_threshold, timeout, last_failure_time, now, clientVars>>
    /\ PoolIdle

\* A direct call of CircuitBreaker.on_failure().
OnFailure ==
    LET r == on_failure(failure_count, last_failure_time, state, now,
                        failure_threshold) IN
    /\ run < MaxFailures
    /\ failure_count' = r.failure_count
    /\ last_failure_time' = r.last_failure_time
    /\ state' = r.state
    /\ run' = run + 1
    /\ op' = "on_failure"
    /\ who' = 0
    /\ arg' = "none"
    /\ prev' = state
    /\ ret' = "none"
    /\ UNCHANGED <<failure_threshold, timeout, now, clientVars>>
    /\ PoolIdle

\* ------------------------------------------- BaseGrpcClient._make_call
\* The words of an exception's text that _make_call looks for.
Keywords == {"timeout", "authentication"}

\* The message of the ServiceCommunicationError raised for an exception whose
\* lower-cased text holds the keywords kw.
classify_error(kw) ==
    IF "timeout" \in kw THEN "Call timeout"
    ELSE IF "authentication" \in kw THEN "Authentication failed"
    ELSE "gRPC call failed"

\* Faulty variant: the call counter is incremented before the breaker is
\* asked, so a rejected call is counted too.
MakeCallStart_counts_rejected(c) ==
    LET r == can_execute(state, last_failure_time, now, timeout) IN
    /\ call_pc[c] = "idle"
    /\ call_count < MaxCalls
    /\ call_count' = call_count + 1
    /\ \/ /\ ~r.ret
          /\ state' = r.state
          /\ op' = "make_call"
          /\ who' = c
          /\ arg' = "none"
          /\ prev' = state
          /\ ret' = "Circuit breaker open"
          /\ UNCHANGED <<error_count, call_pc>>
       \/ /\ r.ret
          /\ state' = r.state
          /\ call_pc' = [call_pc EXCEPT ![c] = "executing"]
          /\ op' = "make_call"
          /\ who' = c
          /\ arg' = "none"
          /\ prev' = state
          /\ ret' = "admitted"
          /\ UNCHANGED error_count
    /\ UNCHANGED <<failure_threshold, timeout, failure_count, last_failure_time,
                   now, run>>
    /\ PoolIdle

\* _make_call up to its await: the breaker gate, then the call counter.
MakeCallStart(c) ==
    LET r == can_execute(state, last_failure_time, now, timeout) IN
    /\ call_pc[c] = "idle"
    /\ \/ /\ ~r.ret
          /\ state' = r.state
          /\ op' = "make_call"
          /\ who' = c
          /\ arg' = "none"
          /\ prev' = state
          /\ ret' = "Circuit breaker open"
          /\ UNCHANGED <<call_count, error_count, call_pc>>
       \/ /\ r.ret
          /\ call_count < MaxCalls
          /\ state' = r.state
          /\ call_count' = call_count + 1
          /\ call_pc' = [call_pc EXCEPT ![c] = "executing"]
          /\ op' = "make_call"
          /\ who' = c
          /\ arg' = "none"
          /\ prev' = state
          /\ ret' = "admitted"
          /\ UNCHANGED error_count
    /\ UNCHANGED <<failure_threshold, timeout, failure_count, last_failure_time,
                   now, run>>
    /\ PoolIdle

\* _execute_call returned: on_success(), the response is returned.
MakeCallReturn(c) ==
    LET r == on_success(failure_count, state) IN
    /\ call_pc[c] = "executing"
    /\ failure_count' = r.failure_count
    /\ state' = r.state
    /\ run' = 0
    /\ call_pc' = [call_pc EXCEPT ![c] = "idle"]
    /\ op' = "make_call_end"
    /\ who' = c
    /\ arg' = "none"
    /\ prev' = state
    /\ ret' = "response"
    /\ UNCHANGED <<failure_threshold, timeout, last_failure_time, now,
                   call_count, error_count>>
    /\ PoolIdle

\* _execute_call raised an Exception: on_failure(), the error counter, and a
\* ServiceCommunicationError classified by the exception's text.
MakeCallRaise(c) ==
    LET r == on_failure(failure_count, last_failure_time, state, now,
                        failure_threshold) IN
    /\ call_pc[c] = "executing"
    /\ \E kw \in SUBSET Keywords :
          ret' = classify_error(kw)
    /\ failure_count' = r.failure_count
    /\ last_failure_time' = r.last_failure_time
    /\ state' = r.state
    /\ run' = run + 1
    /\ error_count' = error_count + 1
    /\ call_pc' = [call_pc EXCEPT ![c] = "idle"]
    /\ op' = "make_call_end"
    /\ who' = c
    /\ arg' = "none"
    /\ prev' = state
    /\ UNCHANGED <<failure_threshold, timeout, now, call_count>>
    /\ PoolIdle

\* The task awaiting _execute_call is cancelled: CancelledError is no
\* Exception, so the except clause does not run.
MakeCallCancelled(c) ==
    /\ call_pc[c] = "executing"
    /\ call_pc' = [call_pc EXCEPT ![c] = "idle"]
    /\ op' = "make_call_end"
    /\ who' = c
    /\ arg' = "none"
    /\ prev' = state
    /\ ret' = "CancelledError"
    /\ UNCHANGED <<breakerVars, now, call_count, error_count, run>>
    /\ PoolIdle

\* No client object constructed, no channel.
InitNoClients ==
    /\ channels = [a \in Addrs |-> 0]
    /\ chans = <<>>
    /\ c_addr = [c \in Clients |-> 0]
    /\ c_channel = [c \in Clients |-> 0]
    /\ c_connected = [c \in Clients |-> FALSE]
    /\ conn_pc = [c \in Clients |-> "idle"]

\* No manager at work.
InitNoManager ==
    /\ m_discovery = FALSE
    /\ m_slot = [s \in Services |-> 0]
    /\ m_clients = [s \in Services |-> 0]
    /\ connection_pool_size = 0
    /\ t_pc = [t \in Tasks |-> "idle"]
    /\ t_svc = [t \in Tasks |-> "trading-engine"]
    /\ t_client = [t \in Tasks |-> 0]
    /\ t_found = [t \in Tasks |-> FALSE]
    /\ cl_pc = "idle"
    /\ cl_todo = {}
    /\ got = 0
    /\ seen = "none"
    /\ err = <<>>
    /\ held = [s \in Services |-> 0]
    /\ handed = {}

\* No ConfigurationValue under validation.
InitNoValue ==
    /\ v_key = <<>>
    /\ v_value = ""
    /\ v_type = "string"
    /\ v_ret = "none"

\* The ConfigurationValue of an operation that returned none. A value holds
\* what the service answered, the environment it answered for and, as
\* history, the time it was cached.
NoValue == [value |-> "none", environment |-> "none", cached_at |-> 0]

\* An empty dict.
EmptyDict == [x \in {} |-> 0]

InitConfigObs ==
    /\ key_arg = <<>>
    /\ env_arg = "none"
    /\ cfg_val = NoValue
    /\ invoked = <<>>
    /\ cb_raised = {}

\* No ConfigurationServiceClient.
InitNoConfigClient ==
    /\ cfg_connected = FALSE
    /\ cfg_http = "none"
    /\ cfg_cache = EmptyDict
    /\ cfg_cache_ttl = EmptyDict
    /\ cache_hits = 0
    /\ cache_misses = 0
    /\ default_cache_ttl = 0
    /\ subscribers = <<>>
    /\ g_pc = [t \in {} |-> "idle"]
    /\ g_key = [t \in {} |-> <<>>]
    /\ g_env = [t \in {} |-> "none"]
    /\ g_notify = [t \in {} |-> FALSE]
    /\ d_pc = "idle"
    /\ InitConfigObs

\* No ServiceDiscovery object, no heartbeat loop, a live process.
InitNoDiscovery ==
    /\ sd_client = "none"
    /\ server_sd = FALSE
    /\ server_pc = "new"
    /\ hb_pc = "none"
    /\ hb_sleep = 0
    /\ hb_cancel = FALSE
    /\ hb_ok = FALSE
    /\ alive = TRUE
    /\ reg_ttl = EmptyDict
    /\ shutdown_event = FALSE
    /\ http_pc = "none"
    /\ grpc_pc = "none"
    /\ wait_pc = "none"
    /\ http_server = "none"
    /\ grpc_server = "none"

\* An empty registry store, nothing discovered yet.
InitNoRegistry ==
    /\ reg_store = EmptyDict
    /\ reg_filter = "none"
    /\ reg_result = {}
    /\ health_check_interval = 1
    /\ InitNoDiscovery

InitNoConfig == InitNoValue /\ InitNoConfigClient /\ InitNoRegistry

InitB ==
    /\ InitBreaker /\ InitClock /\ InitClient /\ InitObs /\ InitNoClients /\ InitNoManager
    /\ InitNoConfig

NextBreaker == CanExecute \/ OnSuccess \/ OnFailure \/ Tick

\* A CircuitBreaker driven through its public methods.
SpecBreaker == InitB /\ [][NextBreaker]_vars

NextClient ==
    \/ \E c \in Callers : MakeCallStart(c)
    \/ \E c \in Callers : MakeCallReturn(c)
    \/ \E c \in Callers : MakeCallRaise(c)
    \/ \E c \in Callers : MakeCallCancelled(c)
    \/ Tick

\* One client whose _make_call is invoked by concurrent tasks.
SpecClient == InitB /\ [][NextClient]_vars

\* ------------------------------------- BaseGrpcClient connect / disconnect
\* What the health Check RPC of _test_connection can end with: a response
\* with status SERVING, a response with any other status, an RpcError with
\* code UNIMPLEMENTED, an RpcError with any other code (UNAVAILABLE, or
\* NOT_FOUND with the details "Service not found"), any other Exception.
ProbeOutcomes ==
    {"SERVING", "NOT_SERVING", "UNIMPLEMENTED", "UNAVAILABLE", "NOT_FOUND", "EXCEPTION"}

\* Faulty variant: an unimplemented health service counts as a failure.
test_connection_strict(outcome) ==
    IF outcome = "SERVING" THEN "return"
    ELSE IF outcome = "NOT_SERVING" THEN "Service not healthy"
    ELSE IF outcome = "EXCEPTION" THEN "exception"
    ELSE "Health check failed"

\* _test_connection(): "return", or the text of what it raises.
test_connection(outcome) ==
    IF outcome = "SERVING" THEN "return"
    ELSE IF outcome = "NOT_SERVING" THEN "Service not healthy"
    ELSE IF outcome = "UNIMPLEMENTED" THEN "return"
    ELSE IF outcome \in {"UNAVAILABLE", "NOT_FOUND"} THEN "Health check failed"
    ELSE "exception"

\* Faulty variant: the pool is never consulted.
address_in_channels_never(chs, a) == FALSE

\* `self.address in self._channels`
address_in_channels(chs, a) == chs[a] # 0

\* Faulty variant: the new channel is not stored.
channels_store_forgets(chs, a, ch) == chs

\* `self._channels[self.address] = self._channel`
channels_store(chs, a, ch) == [chs EXCEPT ![a] = ch]

\* Faulty variant: disconnect() drops the pool entry of the client's address.
disconnect_channels_drops(chs, a) == [chs EXCEPT ![a] = 0]

\* What disconnect() does to the pool: nothing.
disconnect_channels(chs, a) == chs

\* is_connected()
is_connected(c) == c_connected[c] /\ c_channel[c] # 0

\* The breaker of a client built by BaseGrpcClient.__init__: the defaults.
InitBreakerDefault ==
    /\ failure_threshold = DEFAULT_CIRCUIT_BREAKER_THRESHOLD
    /\ timeout = DEFAULT_CIRCUIT_BREAKER_TIMEOUT
    /\ failure_count = 0
    /\ last_failure_time = 0
    /\ state = "CLOSED"
    /\ run = 0

\* Client objects constructed for some addresses; nothing connected yet.
InitClients ==
    /\ channels = [a \in Addrs |-> 0]
    /\ chans = <<>>
    /\ c_addr \in [Clients -> Addrs]
    /\ c_channel = [c \in Clients |-> 0]
    /\ c_connected = [c \in Clients |-> FALSE]
    /\ conn_pc = [c \in Clients |-> "idle"]

BreakerIdle ==
    /\ UNCHANGED <<breakerVars, now, clientVars, run, prev>>
    /\ ConfigIdle

\* str(e) of the RpcError the health Check raised: the status details sent
\* by the peer (`f"Health check failed: {e}"`).
rpc_error_text(outcome) ==
    IF outcome = "NOT_FOUND" THEN <<"Service not found">>
    ELSE IF outcome = "UNAVAILABLE" THEN <<"failed to connect to all addresses">>
    ELSE <<>>

\* The text of the ServiceCommunicationError connect() raises when
\* _test_connection() raised: f"Connection failed: {e}".
connect_error(outcome) ==
    <<"Connection failed", test_connection(outcome)>> \o rpc_error_text(outcome)

\* connect() of client c, whose address is a, up to its await: reuse the
\* pooled channel of the address or create one and put it in the pool.
ConnectBegin(c, a) ==
    /\ IF address_in_channels(channels, a)
       THEN /\ c_channel' = [c_channel EXCEPT ![c] = channels[a]]
            /\ UNCHANGED <<channels, chans>>
       ELSE /\ Len(chans) < MaxChannels
            /\ chans' = Append(chans, [addr |-> a, closed |-> FALSE, probed |-> FALSE])
            /\ c_channel' = [c_channel EXCEPT ![c] = Len(chans) + 1]
            /\ channels' = channels_store(channels, a, Len(chans) + 1)
    /\ conn_pc' = [conn_pc EXCEPT ![c] = "probing"]

\* The channel objects, with channel ch marked as one whose health Check
\* was answered: _test_connection() returned for a client that holds it.
Probed(cs, ch) == [cs EXCEPT ![ch].probed = TRUE]

\* The client's connect() was called by a task inside get_<service>_client.
AwaitedByTask(c) == \E t \in Tasks : t_pc[t] = "connecting" /\ t_client[t] = c

\* held, with the client c forgotten.
Forget(h, c) == [s \in Services |-> IF h[s] = c THEN 0 ELSE h[s]]

\* A caller that holds client c calls connect().
ConnectStart(c) ==
    /\ c_addr[c] # 0
    /\ conn_pc[c] = "idle"
    /\ ConnectBegin(c, c_addr[c])
    /\ op' = "connect_start"
    /\ who' = c
    /\ arg' = "none"
    /\ ret' = "none"
    /\ got' = 0
    /\ seen' = "none"
    /\ err' = <<>>
    /\ UNCHANGED <<c_addr, c_connected, held, handed>>
    /\ BreakerIdle
    /\ ManagerIdle

\* _test_connection() ends: connect() sets _connected, or raises
\* ServiceCommunicationError("Connection failed: ...").
ConnectEnd(c) ==
    /\ conn_pc[c] = "probing"
    /\ ~AwaitedByTask(c)
    /\ \E outcome \in ProbeOutcomes :
          /\ arg' = outcome
          /\ IF test_connection(outcome) = "return"
             THEN /\ c_connected' = [c_connected EXCEPT ![c] = TRUE]
                  /\ chans' = Probed(chans, c_channel[c])
                  /\ ret' = "none"
                  /\ err' = <<>>
             ELSE /\ ret' = "ServiceCommunicationError"
                  /\ err' = connect_error(outcome)
                  /\ UNCHANGED <<c_connected, chans>>
    /\ conn_pc' = [conn_pc EXCEPT ![c] = "idle"]
    /\ op' = "connect"
    /\ who' = c
    /\ got' = 0
    /\ seen' = "none"
    /\ UNCHANGED <<c_addr, c_channel, channels, held, handed>>
    /\ BreakerIdle
    /\ ManagerIdle

\* The task awaiting _test_connection() is cancelled: CancelledError is no
\* Exception and leaves connect() as it is.
ConnectCancelled(c) ==
    /\ conn_pc[c] = "probing"
    /\ ~AwaitedByTask(c)
    /\ conn_pc' = [conn_pc EXCEPT ![c] = "idle"]
    /\ op' = "connect_cancelled"
    /\ who' = c
    /\ arg' = "none"
    /\ ret' = "CancelledError"
    /\ got' = 0
    /\ seen' = "none"
    /\ err' = <<>>
    /\ UNCHANGED <<c_addr, c_channel, c_connected, poolVars, held, handed>>
    /\ BreakerIdle
    /\ ManagerIdle

\* A caller that holds client c calls disconnect().
Disconnect(c) ==
    /\ c_addr[c] # 0
    /\ c_connected' = [c_connected EXCEPT ![c] = FALSE]
    /\ channels' = disconnect_channels(channels, c_addr[c])
    /\ op' = "disconnect"
    /\ who' = c
    /\ arg' = "none"
    /\ ret' = "none"
    /\ got' = 0
    /\ seen' = "none"
    /\ err' = <<>>
    /\ held' = Forget(held, c)
    /\ UNCHANGED <<c_addr, c_channel, conn_pc, chans, handed>>
    /\ BreakerIdle
    /\ ManagerIdle

InitP ==
    /\ InitBreakerDefault /\ InitClock /\ InitClient /\ InitObs /\ InitClients /\ InitNoManager
    /\ InitNoConfig

NextPool ==
    \/ \E c \in Clients : ConnectStart(c)
    \/ \E c \in Clients : ConnectEnd(c)
    \/ \E c \in Clients : ConnectCancelled(c)
    \/ \E c \in Clients : Disconnect(c)

\* Clients constructed directly, connecting and disconnecting concurrently;
\* no manager, so no cleanup.
SpecPool == InitP /\ [][NextPool]_vars

\* ----------------------------------------------- InterServiceClientManager
\* The statically configured address of a service: localhost:50051 for the
\* trading engine, localhost:50052 for the test coordinator.
fallback_addr(svc) == IF svc = "trading-engine" THEN 1 ELSE 2

\* The texts an exception raised by service_discovery.get_service can carry.
RegistryErrorTexts == {<<"registry unavailable">>, <<"Service not found">>}

\* `kw in str(e)`
Contains(e, kw) == \E i \in 1..Len(e) : e[i] = kw

\* The message of the ServiceCommunicationError get_<service>_client raises
\* for a caught exception whose text is e.
manager_error(svc, e) ==
    IF Contains(e, "Service not found")
    THEN <<"Service not found", svc>>
    ELSE <<"Connection failed">> \o e

\* The use_fallback argument as observed.
FallbackStr(use_fallback) == IF use_fallback THEN "use_fallback" ELSE "no_fallback"

\* Faulty variant: a configured registry is consulted whatever use_fallback.
consults_registry_always(disc, use_fallback) == disc

\* `self.service_discovery and not use_fallback`
consults_registry(disc, use_fallback) == disc /\ ~use_fallback

\* `self._trading_client and self._trading_client.is_connected()`
cached_client(slot, conn, chan) ==
    slot # 0 /\ conn[slot] /\ chan[slot] # 0

\* The next client object to construct (0: the model's supply is used up).
FreeClient ==
    IF \E c \in Clients : c_addr[c] = 0
    THEN CHOOSE c \in Clients : c_addr[c] = 0 /\ \A d \in Clients : d < c => c_addr[d] # 0
    ELSE 0

\* Faulty variant: the new client goes into _clients and is counted before
\* its connect() is awaited.
CreateAndConnect_caches_first(t, svc, a, sn) ==
    LET c == FreeClient IN
    /\ c # 0
    /\ c_addr' = [c_addr EXCEPT ![c] = a]
    /\ m_slot' = [m_slot EXCEPT ![svc] = c]
    /\ m_clients' = [m_clients EXCEPT ![svc] = c]
    /\ connection_pool_size' = connection_pool_size + 1
    /\ ConnectBegin(c, a)
    /\ t_pc' = [t_pc EXCEPT ![t] = "connecting"]
    /\ t_svc' = [t_svc EXCEPT ![t] = svc]
    /\ t_client' = [t_client EXCEPT ![t] = c]
    /\ t_found' = [t_found EXCEPT ![t] = (sn = "instance")]
    /\ op' = "get_client_start"
    /\ who' = 0
    /\ arg' = svc
    /\ ret' = "none"
    /\ got' = 0
    /\ seen' = sn
    /\ err' = <<>>
    /\ UNCHANGED <<c_connected, m_discovery, held, handed, cleanupVars>>

\* get_<service>_client from the construction of the client to the await
\* inside its connect(): the slot is assigned before connect() is awaited.
CreateAndConnect(t, svc, a, sn) ==
    LET c == FreeClient IN
    /\ c # 0
    /\ c_addr' = [c_addr EXCEPT ![c] = a]
    /\ m_slot' = [m_slot EXCEPT ![svc] = c]
    /\ ConnectBegin(c, a)
    /\ t_pc' = [t_pc EXCEPT ![t] = "connecting"]
    /\ t_svc' = [t_svc EXCEPT ![t] = svc]
    /\ t_client' = [t_client EXCEPT ![t] = c]
    /\ t_found' = [t_found EXCEPT ![t] = (sn = "instance")]
    /\ op' = "get_client_start"
    /\ who' = 0
    /\ arg' = svc
    /\ ret' = "none"
    /\ got' = 0
    /\ seen' = sn
    /\ err' = <<>>
    /\ UNCHANGED <<c_connected, m_discovery, m_clients, connection_pool_size,
                   held, handed, cleanupVars>>

\* The call of task t is over: its locals are gone.
TaskEnds(t) ==
    /\ t_pc' = [t_pc EXCEPT ![t] = "idle"]
    /\ t_svc' = [t_svc EXCEPT ![t] = "trading-engine"]
    /\ t_client' = [t_client EXCEPT ![t] = 0]
    /\ t_found' = [t_found EXCEPT ![t] = FALSE]

\* get_<service>_client raises ServiceCommunicationError with message e.
GetRaises(t, svc, e, sn) ==
    /\ TaskEnds(t)
    /\ op' = "get_client"
    /\ who' = 0
    /\ arg' = svc
    /\ ret' = "ServiceCommunicationError"
    /\ got' = 0
    /\ seen' = sn
    /\ err' = e
    /\ UNCHANGED <<mgrVars, held, handed, cleanupVars>>

\* Task t calls get_<service>_client(use_fallback): the cached client, or on
\* to the registry lookup, or on to a client for the static address.
GetStart(t, svc, use_fallback) ==
    /\ t_pc[t] = "idle"
    /\ IF cached_client(m_slot[svc], c_connected, c_channel)
       THEN /\ op' = "get_client"
            /\ who' = 0
            /\ arg' = svc
            /\ ret' = "client"
            /\ got' = m_slot[svc]
            /\ seen' = FallbackStr(use_fallback)
            /\ err' = <<>>
            /\ held' = [held EXCEPT ![svc] = m_slot[svc]]
            /\ handed' = handed \cup {m_slot[svc]}
            /\ UNCHANGED <<poolVars, connVars, mgrVars, taskVars, cleanupVars>>
       ELSE IF consults_registry(m_discovery, use_fallback)
       THEN /\ t_pc' = [t_pc EXCEPT ![t] = "lookup"]
            /\ t_svc' = [t_svc EXCEPT ![t] = svc]
            /\ op' = "get_client_start"
            /\ who' = 0
            /\ arg' = svc
            /\ ret' = "none"
            /\ got' = 0
            /\ seen' = FallbackStr(use_fallback)
            /\ err' = <<>>
            /\ UNCHANGED <<poolVars, connVars, mgrVars, t_client, t_found, held, handed,
                           cleanupVars>>
       ELSE CreateAndConnect(t, svc, fallback_addr(svc), FallbackStr(use_fallback))
    /\ BreakerIdle

\* service_discovery.get_service ends: no instance, an exception, or an
\* instance at some address.
GetLookupEnd(t) ==
    /\ t_pc[t] = "lookup"
    /\ \/ /\ GetRaises(t, t_svc[t], manager_error(t_svc[t], <<"Service not found", t_svc[t]>>),
                       "no instance")
          /\ UNCHANGED <<poolVars, connVars>>
       \/ /\ \E e \in RegistryErrorTexts :
                GetRaises(t, t_svc[t], manager_error(t_svc[t], e), "lookup raised")
          /\ UNCHANGED <<poolVars, connVars>>
       \/ \E a \in Addrs : CreateAndConnect(t, t_svc[t], a, "instance")
    /\ BreakerIdle

\* The connect() awaited by task t ends. On success the slot is read again:
\* it goes into _clients, the pool-size counter grows, and it is returned.
GetConnectEnd(t) ==
    LET c == t_client[t]
        svc == t_svc[t] IN
    /\ t_pc[t] = "connecting"
    /\ \E outcome \in ProbeOutcomes :
          IF test_connection(outcome) = "return"
          THEN /\ c_connected' = [c_connected EXCEPT ![c] = TRUE]
               /\ chans' = Probed(chans, c_channel[c])
               /\ m_clients' = [m_clients EXCEPT ![svc] = m_slot[svc]]
               /\ connection_pool_size' = connection_pool_size + 1
               /\ TaskEnds(t)
               /\ op' = "get_client"
               /\ who' = 0
               /\ arg' = svc
               /\ ret' = "client"
               /\ got' = m_slot[svc]
               /\ seen' = outcome
               /\ err' = <<>>
               /\ held' = [held EXCEPT ![svc] = m_slot[svc]]
               /\ handed' = handed \cup {m_slot[svc]}
               /\ UNCHANGED <<m_discovery, m_slot, cleanupVars>>
          ELSE /\ GetRaises(t, svc, manager_error(svc, connect_error(outcome)), outcome)
               /\ UNCHANGED <<c_connected, chans>>
    /\ conn_pc' = [conn_pc EXCEPT ![c] = "idle"]
    /\ UNCHANGED <<c_addr, c_channel, channels>>
    /\ BreakerIdle

\* The channels now in the pool.
PooledChannels == {channels[a] : a \in Addrs} \ {0}

\* Faulty variant: with no channel to close, cleanup() returns at once and
\* leaves the client cache and the counter as they are.
CleanupCloseOrClear_returns_early ==
    IF PooledChannels # {}
    THEN /\ cl_pc' = "closing"
         /\ cl_todo' = PooledChannels
         /\ UNCHANGED <<channels, m_clients, connection_pool_size>>
    ELSE /\ cl_pc' = "idle"
         /\ cl_todo' = {}
         /\ UNCHANGED <<channels, m_clients, connection_pool_size>>

\* cleanup() from the end of its disconnect phase: gather the close() of
\* every pooled channel, or with an empty pool clear everything at once.
CleanupCloseOrClear ==
    IF PooledChannels # {}
    THEN /\ cl_pc' = "closing"
         /\ cl_todo' = PooledChannels
         /\ UNCHANGED <<channels, m_clients, connection_pool_size>>
    ELSE /\ cl_pc' = "idle"
         /\ cl_todo' = {}
         /\ channels' = [a \in Addrs |-> 0]
         /\ m_clients' = [s \in Services |-> 0]
         /\ connection_pool_size' = 0

CleanupObs(sn) ==
    /\ op' = "cleanup"
    /\ who' = 0
    /\ arg' = "none"
    /\ ret' = "none"
    /\ got' = 0
    /\ seen' = sn
    /\ err' = <<>>

\* cleanup() is called: gather the disconnect() of every cached client that
\* is connected; with none, go on to the channels.
CleanupStart ==
    LET todo == {c \in Clients : is_connected(c) /\ \E s \in Services : m_clients[s] = c} IN
    /\ cl_pc = "idle"
    /\ IF todo # {}
       THEN /\ cl_pc' = "disconnecting"
            /\ cl_todo' = todo
            /\ UNCHANGED <<channels, m_clients, connection_pool_size>>
       ELSE CleanupCloseOrClear
    /\ CleanupObs("none")
    /\ UNCHANGED <<chans, connVars, m_discovery, m_slot, taskVars, held, handed>>
    /\ BreakerIdle

\* The gathered disconnect() coroutines run.
CleanupDisconnects ==
    /\ cl_pc = "disconnecting"
    /\ c_connected' = [c \in Clients |-> IF c \in cl_todo THEN FALSE ELSE c_connected[c]]
    /\ held' = [s \in Services |-> IF held[s] \in cl_todo THEN 0 ELSE held[s]]
    /\ cl_pc' = "disconnected"
    /\ cl_todo' = {}
    /\ CleanupObs("none")
    /\ UNCHANGED <<poolVars, c_addr, c_channel, conn_pc, mgrVars, taskVars, handed>>
    /\ BreakerIdle

\* cleanup() resumes after the first gather.
CleanupResume ==
    /\ cl_pc = "disconnected"
    /\ CleanupCloseOrClear
    /\ CleanupObs("none")
    /\ UNCHANGED <<chans, connVars, m_discovery, m_slot, taskVars, held, handed>>
    /\ BreakerIdle

\* The gathered channel.close() coroutines run; those that raise leave
\* their exception in the result of gather (return_exceptions=True).
CleanupCloses ==
    /\ cl_pc = "closing"
    /\ \E raised \in SUBSET cl_todo :
          /\ chans' = [i \in 1..Len(chans) |->
                          IF i \in cl_todo \ raised
                          THEN [chans[i] EXCEPT !.closed = TRUE] ELSE chans[i]]
          /\ cl_todo' = raised
    /\ cl_pc' = "closed"
    /\ CleanupObs("none")
    /\ UNCHANGED <<channels, connVars, mgrVars, taskVars, held, handed>>
    /\ BreakerIdle

\* cleanup() resumes after the second gather: the pool and the client cache
\* are cleared, the counter is zeroed.
CleanupEnd ==
    /\ cl_pc = "closed"
    /\ cl_pc' = "idle"
    /\ cl_todo' = {}
    /\ channels' = [a \in Addrs |-> 0]
    /\ m_clients' = [s \in Services |-> 0]
    /\ connection_pool_size' = 0
    /\ CleanupObs(IF cl_todo # {} THEN "close raised" ELSE "closed")
    /\ UNCHANGED <<chans, connVars, m_discovery, m_slot, taskVars, held, handed>>
    /\ BreakerIdle

\* A manager constructed with or without a service_discovery; no client yet.
InitManager ==
    /\ m_discovery \in BOOLEAN
    /\ m_slot = [s \in Services |-> 0]
    /\ m_clients = [s \in Services |-> 0]
    /\ connection_pool_size = 0
    /\ t_pc = [t \in Tasks |-> "idle"]
    /\ t_svc = [t \in Tasks |-> "trading-engine"]
    /\ t_client = [t \in Tasks |-> 0]
    /\ t_found = [t \in Tasks |-> FALSE]
    /\ cl_pc = "idle"
    /\ cl_todo = {}
    /\ got = 0
    /\ seen = "none"
    /\ err = <<>>
    /\ held = [s \in Services |-> 0]
    /\ handed = {}

InitM ==
    /\ InitBreakerDefault /\ InitClock /\ InitClient /\ InitObs /\ InitNoClients /\ InitManager
    /\ InitNoConfig

NextManager ==
    \/ \E t \in Tasks, svc \in Services, fb \in BOOLEAN : GetStart(t, svc, fb)
    \/ \E t \in Tasks : GetLookupEnd(t)
    \/ \E t \in Tasks : GetConnectEnd(t)
    \/ \E c \in handed : Disconnect(c)
    \/ CleanupStart
    \/ CleanupDisconnects
    \/ CleanupResume
    \/ CleanupCloses
    \/ CleanupEnd

\* One manager used by concurrent tasks, whose callers also connect and
\* disconnect the clients it handed out.
SpecManager == InitM /\ [][NextManager]_vars

\* ------------------------------------------ configuration keys and values
\* The characters a key is made of: a letter, a digit, the underscore, the
\* dot, a line feed and a character of no class.
Letters == {"a", "b", "c"}
Digits == {"1"}
Chars == Letters \cup Digits \cup {"_", ".", "\n", "-"}

\* VALID_CONFIG_TYPES
VALID_CONFIG_TYPES == {"string", "number", "boolean", "json"}

\* The whole of s is [a-zA-Z][a-zA-Z0-9_]*(\.[a-zA-Z][a-zA-Z0-9_]*)* .
FullMatch(s) ==
    /\ Len(s) > 0
    /\ s[1] \in Letters
    /\ \A i \in 1..Len(s) :
          \/ s[i] \in Letters \cup Digits \cup {"_"}
          \/ s[i] = "." /\ i < Len(s) /\ s[i + 1] \in Letters

\* Faulty variant: the dots of the key are not looked at.
KeyRegexMatch_any_dots(s) ==
    /\ Len(s) > 0
    /\ \A i \in 1..Len(s) : s[i] \in Letters \cup Digits \cup {"_", "."}

\* re.match(CONFIG_KEY_PATTERN_REGEX, s): the pattern ends with `$`, which
\* matches at the end of the string and also just before a line feed that
\* ends the string.
KeyRegexMatch(s) ==
    \/ FullMatch(s)
    \/ Len(s) > 1 /\ s[Len(s)] = "\n" /\ FullMatch(SubSeq(s, 1, Len(s) - 1))

\* ConfigurationValue.validate()
validate(key, value, type) ==
    IF key = <<>> THEN FALSE
    ELSE IF ~KeyRegexMatch(key) THEN FALSE
    ELSE IF value = "" THEN FALSE
    ELSE IF type \notin VALID_CONFIG_TYPES THEN FALSE
    ELSE TRUE

\* _validate_key(key): "none", or the ConfigurationError it raises.
validate_key(key) ==
    IF key = <<>> THEN "Configuration key must be a non-empty string"
    ELSE IF ~KeyRegexMatch(key) THEN "Invalid configuration key format"
    ELSE "none"

\* The keys, values and types handed to validate().
RECURSIVE KeysOfLen(_)
KeysOfLen(n) ==
    IF n = 0 THEN {<<>>}
    ELSE {Append(k, ch) : k \in KeysOfLen(n - 1), ch \in Chars}
KeyInputs ==
    UNION {KeysOfLen(n) : n \in 0..MaxKeyLen} \cup {<<"a", ".", "b", "_", "c">>}
ValueInputs == {"", "x"}
TypeInputs == VALID_CONFIG_TYPES \cup {"integer", ""}

InitValue ==
    /\ v_key \in KeyInputs
    /\ v_value \in ValueInputs
    /\ v_type \in TypeInputs
    /\ v_ret = "none"

GrpcIdle ==
    UNCHANGED <<breakerVars, now, clientVars, obsVars, run, poolVars, connVars, mgrVars,
                taskVars, cleanupVars, histVars>>

ClientIdle == UNCHANGED <<cfgVars, fetchVars, d_pc, cfgObsVars, regVars, sdVars>>

\* ConfigurationValue(key, value, type).validate()
Validate ==
    /\ v_ret' = BoolStr(validate(v_key, v_value, v_type))
    /\ UNCHANGED <<v_key, v_value, v_type>>
    /\ GrpcIdle
    /\ ClientIdle

\* client._validate_key(key)
ValidateKey ==
    /\ v_ret' = validate_key(v_key)
    /\ UNCHANGED <<v_key, v_value, v_type>>
    /\ GrpcIdle
    /\ ClientIdle

InitV ==
    /\ InitBreakerDefault /\ InitClock /\ InitClient /\ InitObs /\ InitNoClients /\ InitNoManager
    /\ InitValue /\ InitNoConfigClient /\ InitNoRegistry

NextValidate == Validate \/ ValidateKey

\* validate() and _validate_key() applied to every key, value and type.
SpecValidate == InitV /\ [][NextValidate]_vars

\* ---------------------------------------------- ConfigurationServiceClient
\* settings.environment (config.py: the default)
settings_environment == "development"

ConfigTasks == 1..NumConfigTasks

\* The keys callers ask for: well formed, well formed followed by a line
\* feed, ending with a dot.
ConfigKeys == {<<"a">>, <<"a", "\n">>, <<"a", ".">>}

\* The environment argument: None (here "none") or a name.
EnvInputs == {"none", "development", "production"}

\* The values the configuration service answers with.
ConfigValues == {"v1", "v2"}

\* The patterns callers subscribe under.
Patterns == {<<"a">>, <<"a", "*">>, <<"b", "*">>}

\* What `await self._http_client.get("/api/v1/configuration")` ends with: a
\* well-formed 200 response, status 404, status 500, any other failure
\* status, a body that is no JSON, a JSON body without a required field,
\* httpx.TimeoutException, httpx.ConnectError, any other exception.
FetchOutcomes ==
    {"ok", "404", "500", "status", "bad json", "missing field", "timeout",
     "connect error", "exception"}

\* Faulty variant: the environment is left out of the cache key.
cache_key_without_environment(key, env) == <<key, settings_environment>>

\* `environment or self.settings.environment`
named_environment(env) == IF env = "none" THEN settings_environment ELSE env

\* `f"{key}:{environment or self.settings.environment}"`: a valid key holds
\* no colon, so the string is one pair of key and environment.
cache_key(key, env) == <<key, named_environment(env)>>

\* Faulty variant: the comparison is the wrong way round.
is_cache_valid_reversed(ttl, ck, t) ==
    IF ck \notin DOMAIN ttl THEN FALSE ELSE t > ttl[ck]

\* Faulty variant: an entry is still served at its expiry time.
is_cache_valid_at_expiry(ttl, ck, t) ==
    IF ck \notin DOMAIN ttl THEN FALSE ELSE t <= ttl[ck]

\* _is_cache_valid(cache_key)
is_cache_valid(ttl, ck, t) ==
    IF ck \notin DOMAIN ttl THEN FALSE ELSE t < ttl[ck]

\* `d[k] = v`
dict_put(d, k, v) == [x \in DOMAIN d \cup {k} |-> IF x = k THEN v ELSE d[x]]

\* Faulty variant: nothing is invalidated.
invalidate_nothing(d, key) == d

\* The dict without the cache keys that start with f"{key}:".
invalidate(d, key) == [x \in {y \in DOMAIN d : y[1] # key} |-> d[x]]

\* `key.startswith(prefix)`
StartsWith(key, prefix) ==
    Len(prefix) <= Len(key) /\ SubSeq(key, 1, Len(prefix)) = prefix

\* _matches_pattern(key, pattern)
matches_pattern(key, pattern) ==
    IF pattern # <<>> /\ pattern[Len(pattern)] = "*"
    THEN StartsWith(key, SubSeq(pattern, 1, Len(pattern) - 1))
    ELSE key = pattern

\* Faulty variant: httpx.TimeoutException is not converted.
fetch_error_timeout_escapes(outcome) ==
    IF outcome = "404" THEN "Configuration key not found"
    ELSE IF outcome \in {"500", "status"} THEN "Configuration service error"
    ELSE IF outcome \in {"bad json", "missing field"} THEN "Invalid response format"
    ELSE IF outcome = "connect error" THEN "Configuration service connection error"
    ELSE "raw"

\* The message of the ConfigurationError get_configuration raises for a
\* fetch outcome ("raw": the exception is not caught and leaves as it is).
fetch_error(outcome) ==
    IF outcome = "404" THEN "Configuration key not found"
    ELSE IF outcome \in {"500", "status"} THEN "Configuration service error"
    ELSE IF outcome \in {"bad json", "missing field"} THEN "Invalid response format"
    ELSE IF outcome = "timeout" THEN "Configuration service timeout"
    ELSE IF outcome = "connect error" THEN "Configuration service connection error"
    ELSE "raw"

\* Faulty variant: the response is cached before its fields are checked.
response_cached_before_validation(outcome) == outcome \in {"ok", "missing field"}

\* Whether get_configuration reaches `self._cache[cache_key] = config_value`:
\* every raise on the way there leaves the try block first.
response_cached(outcome) == outcome = "ok"

\* get_configuration(key, environment) up to its return, raise or await,
\* for a client in the given state at time t.
get_begin(conn, cache, ttl, key, env, t) ==
    IF ~conn THEN [kind |-> "raise", err |-> "Client not connected"]
    ELSE IF validate_key(key) # "none" THEN [kind |-> "raise", err |-> validate_key(key)]
    ELSE IF cache_key(key, env) \in DOMAIN cache /\ is_cache_valid(ttl, cache_key(key, env), t)
    THEN [kind |-> "hit", err |-> "none"]
    ELSE [kind |-> "miss", err |-> "none"]

\* The callbacks subscribed under the i-th pattern onwards, in the order of
\* the loops of trigger_update_notification, for the patterns matching key.
RECURSIVE MatchingFrom(_, _, _)
MatchingFrom(subs, i, key) ==
    IF i > Len(subs) THEN <<>>
    ELSE (IF matches_pattern(key, subs[i].pattern) THEN subs[i].callbacks ELSE <<>>)
         \o MatchingFrom(subs, i + 1, key)

\* Faulty variant: the first callback that raises ends the notification.
RECURSIVE notify_until_raise(_, _)
notify_until_raise(cbs, bad) ==
    IF cbs = <<>> THEN <<>>
    ELSE IF Head(cbs) \in bad THEN <<Head(cbs)>>
    ELSE <<Head(cbs)>> \o notify_until_raise(Tail(cbs), bad)

\* The callbacks invoked by the notification loop over the callbacks cbs
\* when those in bad raise: each raise is caught and the loop goes on.
notify(cbs, bad) == cbs

\* `callback(key, new_value)` for each callback of cbs.
calls(cbs, key, value) ==
    [i \in 1..Len(cbs) |-> [callback |-> cbs[i], key |-> key, value |-> value]]

\* The number of callbacks subscribed.
RECURSIVE CountCallbacks(_)
CountCallbacks(subs) ==
    IF subs = <<>> THEN 0 ELSE Len(Head(subs).callbacks) + CountCallbacks(Tail(subs))

\* subscribe_to_updates(pattern, callback)
subscribe(subs, pattern, cb) ==
    IF \E i \in 1..Len(subs) : subs[i].pattern = pattern
    THEN [i \in 1..Len(subs) |->
            IF subs[i].pattern = pattern
            THEN [subs[i] EXCEPT !.callbacks = Append(@, cb)] ELSE subs[i]]
    ELSE Append(subs, [pattern |-> pattern, callbacks |-> <<cb>>])

\* A client that was constructed, or constructed and connected, with some
\* cache lifetime.
InitConfigClient ==
    /\ cfg_connected \in BOOLEAN
    /\ cfg_http = IF cfg_connected THEN "open" ELSE "none"
    /\ cfg_cache = EmptyDict
    /\ cfg_cache_ttl = EmptyDict
    /\ cache_hits = 0
    /\ cache_misses = 0
    /\ default_cache_ttl \in 1..MaxTtl
    /\ subscribers = <<>>
    /\ g_pc = [t \in ConfigTasks |-> "idle"]
    /\ g_key = [t \in ConfigTasks |-> <<>>]
    /\ g_env = [t \in ConfigTasks |-> "none"]
    /\ g_notify = [t \in ConfigTasks |-> FALSE]
    /\ d_pc = "idle"
    /\ InitConfigObs

\* What no configuration operation touches.
ConfigFrame ==
    UNCHANGED <<breakerVars, now, clientVars, prev, run, poolVars, connVars, mgrVars,
                taskVars, cleanupVars, got, held, handed, valVars, arg, regVars, sdVars>>

\* The call of task t is over.
FetchEnds(t) ==
    /\ g_pc' = [g_pc EXCEPT ![t] = "idle"]
    /\ g_key' = [g_key EXCEPT ![t] = <<>>]
    /\ g_env' = [g_env EXCEPT ![t] = "none"]
    /\ g_notify' = [g_notify EXCEPT ![t] = FALSE]

\* Task t suspends at the remote fetch, counted as a cache miss.
FetchBegins(t, key, env, for_notify) ==
    /\ cache_misses' = cache_misses + 1
    /\ g_pc' = [g_pc EXCEPT ![t] = "fetching"]
    /\ g_key' = [g_key EXCEPT ![t] = key]
    /\ g_env' = [g_env EXCEPT ![t] = env]
    /\ g_notify' = [g_notify EXCEPT ![t] = for_notify]
    /\ ret' = "fetch"
    /\ err' = <<>>
    /\ cfg_val' = NoValue
    /\ invoked' = <<>>
    /\ cb_raised' = {}

\* Task t calls get_configuration(key, env).
GetConfigurationStart(t, key, env) ==
    LET b == get_begin(cfg_connected, cfg_cache, cfg_cache_ttl, key, env, now) IN
    /\ g_pc[t] = "idle"
    /\ cache_hits + cache_misses < MaxConfigCalls
    /\ who' = 0
    /\ key_arg' = key
    /\ env_arg' = env
    /\ seen' = b.kind
    /\ IF b.kind = "raise"
       THEN /\ op' = "get_configuration"
            /\ ret' = "ConfigurationError"
            /\ err' = <<b.err>>
            /\ cfg_val' = NoValue
            /\ invoked' = <<>>
            /\ cb_raised' = {}
            /\ UNCHANGED <<cache_hits, cache_misses, fetchVars>>
       ELSE IF b.kind = "hit"
       THEN /\ op' = "get_configuration"
            /\ cache_hits' = cache_hits + 1
            /\ ret' = "value"
            /\ err' = <<>>
            /\ cfg_val' = cfg_cache[cache_key(key, env)]
            /\ invoked' = <<>>
            /\ cb_raised' = {}
            /\ UNCHANGED <<cache_misses, fetchVars>>
       ELSE /\ op' = "get_configuration_start"
            /\ FetchBegins(t, key, env, FALSE)
            /\ UNCHANGED cache_hits
    /\ UNCHANGED <<cfg_connected, cfg_http, cfg_cache, cfg_cache_ttl, default_cache_ttl,
                   subscribers, d_pc>>
    /\ ConfigFrame

\* Task t calls trigger_update_notification(key): the entries of the key
\* are dropped, then get_configuration(key) runs up to its await; a
\* ConfigurationError it raises is logged and swallowed.
TriggerUpdateNotificationStart(t, key) ==
    LET cache == invalidate(cfg_cache, key)
        ttl == invalidate(cfg_cache_ttl, key)
        b == get_begin(cfg_connected, cache, ttl, key, "none", now) IN
    /\ g_pc[t] = "idle"
    /\ cache_hits + cache_misses < MaxConfigCalls
    /\ who' = 0
    /\ key_arg' = key
    /\ env_arg' = "none"
    /\ seen' = IF /\ b.kind = "miss"
                  /\ get_begin(cfg_connected, cfg_cache, cfg_cache_ttl, key, "none", now).kind = "hit"
               THEN "invalidated" ELSE b.kind
    /\ cfg_cache' = cache
    /\ cfg_cache_ttl' = ttl
    /\ IF b.kind = "raise"
       THEN /\ op' = "trigger_update_notification"
            /\ ret' = "none"
            /\ err' = <<>>
            /\ cfg_val' = NoValue
            /\ invoked' = <<>>
            /\ cb_raised' = {}
            /\ UNCHANGED <<cache_hits, cache_misses, fetchVars>>
       ELSE IF b.kind = "hit"
       THEN /\ op' = "trigger_update_notification"
            /\ cache_hits' = cache_hits + 1
            /\ ret' = "none"
            /\ err' = <<>>
            /\ cfg_val' = cache[cache_key(key, "none")]
            /\ \E bad \in SUBSET Range(MatchingFrom(subscribers, 1, key)) :
                  /\ invoked' = calls(notify(MatchingFrom(subscribers, 1, key), bad),
                                     key, cache[cache_key(key, "none")])
                  /\ cb_raised' = bad
            /\ UNCHANGED <<cache_misses, fetchVars>>
       ELSE /\ op' = "trigger_update_notification_start"
            /\ FetchBegins(t, key, "none", TRUE)
            /\ UNCHANGED cache_hits
    /\ UNCHANGED <<cfg_connected, cfg_http, default_cache_ttl, subscribers, d_pc>>
    /\ ConfigFrame

\* The remote fetch of task t ends. A well-formed response is cached with
\* expiry now + _default_cache_ttl and returned; inside
\* trigger_update_notification it is then handed to the matching callbacks.
\* Every other outcome raises.
FetchEnd(t) ==
    LET ck == cache_key(g_key[t], g_env[t]) IN
    /\ g_pc[t] = "fetching"
    /\ who' = 0
    /\ key_arg' = g_key[t]
    /\ env_arg' = g_env[t]
    /\ FetchEnds(t)
    /\ \E outcome \in FetchOutcomes :
          /\ seen' = outcome
          /\ IF outcome = "ok"
             THEN \E v \in ConfigValues :
                     LET value == [value |-> v,
                                   environment |-> named_environment(g_env[t]),
                                   cached_at |-> now] IN
                     /\ cfg_cache' = dict_put(cfg_cache, ck, value)
                     /\ cfg_cache_ttl' = dict_put(cfg_cache_ttl, ck, now + default_cache_ttl)
                     /\ cfg_val' = value
                     /\ err' = <<>>
                     /\ IF g_notify[t]
                        THEN /\ op' = "trigger_update_notification"
                             /\ ret' = "none"
                             /\ \E bad \in SUBSET Range(MatchingFrom(subscribers, 1, g_key[t])) :
                                   /\ invoked' = calls(notify(MatchingFrom(subscribers, 1, g_key[t]), bad),
                                                      g_key[t], value)
                                   /\ cb_raised' = bad
                        ELSE /\ op' = "get_configuration"
                             /\ ret' = "value"
                             /\ invoked' = <<>>
                             /\ cb_raised' = {}
             ELSE /\ cfg_val' = NoValue
                  /\ invoked' = <<>>
                  /\ cb_raised' = {}
                  /\ IF response_cached(outcome)
                     THEN \E v \in ConfigValues :
                             /\ cfg_cache' = dict_put(cfg_cache, ck,
                                                      [value |-> v,
                                                       environment |-> named_environment(g_env[t]),
                                                       cached_at |-> now])
                             /\ cfg_cache_ttl' = dict_put(cfg_cache_ttl, ck,
                                                          now + default_cache_ttl)
                     ELSE UNCHANGED <<cfg_cache, cfg_cache_ttl>>
                  /\ IF g_notify[t]
                     THEN /\ op' = "trigger_update_notification"
                          /\ ret' = IF fetch_error(outcome) = "raw" THEN "Exception" ELSE "none"
                          /\ err' = <<>>
                     ELSE /\ op' = "get_configuration"
                          /\ ret' = IF fetch_error(outcome) = "raw"
                                    THEN "Exception" ELSE "ConfigurationError"
                          /\ err' = <<fetch_error(outcome)>>
    /\ UNCHANGED <<cfg_connected, cfg_http, cache_hits, cache_misses, default_cache_ttl,
                   subscribers, d_pc>>
    /\ ConfigFrame

ConfigObsNone ==
    /\ ret' = "none"
    /\ err' = <<>>
    /\ seen' = "none"
    /\ key_arg' = <<>>
    /\ env_arg' = "none"
    /\ cfg_val' = NoValue
    /\ invoked' = <<>>
    /\ cb_raised' = {}

\* The task suspended at the fetch is cancelled.
FetchCancelled(t) ==
    /\ g_pc[t] = "fetching"
    /\ FetchEnds(t)
    /\ op' = "get_configuration_cancelled"
    /\ who' = 0
    /\ ConfigObsNone
    /\ UNCHANGED <<cfgVars, d_pc>>
    /\ ConfigFrame

\* subscribe_to_updates(pattern, callback); the callback is numbered.
SubscribeToUpdates(pattern) ==
    /\ CountCallbacks(subscribers) < MaxSubscriptions
    /\ subscribers' = subscribe(subscribers, pattern, CountCallbacks(subscribers) + 1)
    /\ op' = "subscribe_to_updates"
    /\ who' = 0
    /\ ConfigObsNone
    /\ UNCHANGED <<cfg_connected, cfg_http, cfg_cache, cfg_cache_ttl, cache_hits,
                   cache_misses, default_cache_ttl, fetchVars, d_pc>>
    /\ ConfigFrame

\* disconnect() from `self._connected = False` to its end.
DisconnectClears ==
    /\ cfg_http' = "none"
    /\ cfg_connected' = FALSE
    /\ cfg_cache' = EmptyDict
    /\ cfg_cache_ttl' = EmptyDict
    /\ subscribers' = <<>>
    /\ d_pc' = "idle"

\* disconnect() is called: with an HTTP client it suspends at aclose().
ConfigDisconnectStart ==
    /\ d_pc = "idle"
    /\ IF cfg_http # "none"
       THEN /\ d_pc' = "closing"
            /\ UNCHANGED <<cfg_connected, cfg_http, cfg_cache, cfg_cache_ttl, subscribers>>
       ELSE DisconnectClears
    /\ op' = "config_disconnect"
    /\ who' = 0
    /\ ConfigObsNone
    /\ UNCHANGED <<cache_hits, cache_misses, default_cache_ttl, fetchVars>>
    /\ ConfigFrame

\* aclose() ends: disconnect() goes on to its end.
ConfigDisconnectEnd ==
    /\ d_pc = "closing"
    /\ DisconnectClears
    /\ op' = "config_disconnect"
    /\ who' = 0
    /\ ConfigObsNone
    /\ UNCHANGED <<cache_hits, cache_misses, default_cache_ttl, fetchVars>>
    /\ ConfigFrame

\* time.time() advances while the configuration client is in use.
ConfigTick == now < MaxConfigTime /\ Tick

InitC ==
    /\ InitBreakerDefault /\ InitClock /\ InitClient /\ InitObs /\ InitNoClients /\ InitNoManager
    /\ InitNoValue /\ InitConfigClient /\ InitNoRegistry

NextConfig ==
    \/ \E t \in ConfigTasks, key \in ConfigKeys, env \in EnvInputs :
          GetConfigurationStart(t, key, env)
    \/ \E t \in ConfigTasks, key \in ConfigKeys : TriggerUpdateNotificationStart(t, key)
    \/ \E t \in ConfigTasks : FetchEnd(t)
    \/ \E t \in ConfigTasks : FetchCancelled(t)
    \/ \E pattern \in Patterns : SubscribeToUpdates(pattern)
    \/ ConfigDisconnectStart
    \/ ConfigDisconnectEnd
    \/ ConfigTick

\* One ConfigurationServiceClient used by concurrent tasks.
SpecConfig == InitC /\ [][NextConfig]_vars

\* -------------------------------------------------------- ServiceDiscovery
\* The staleness threshold of discovery, in minutes; the registry's clock
\* `now` counts minutes.
STALENESS_THRESHOLD == 5

\* The service names registered and asked for, and the registry keys
\* `service:<name>:<instance>`.
ServiceNames == {"risk-monitor", "trading-engine"}
RegistryKeys == ServiceNames \X {"instance1"}

\* What a registry key can hold: a record with all required fields or with
\* one missing, and any heartbeat timestamp.
RegistryRecords ==
    [complete : BOOLEAN, last_heartbeat : 0..MaxRegistryTime]

\* Faulty variant: the scan is given up at the first record with a missing
\* field, so nothing is returned when the scan meets one.
discover_services_stops_at_malformed(store, service_name, t) ==
    IF \E k \in DOMAIN store :
          (service_name = "none" \/ k[1] = service_name) /\ ~store[k].complete
    THEN {}
    ELSE {k \in DOMAIN store :
             /\ (service_name = "none" \/ k[1] = service_name)
             /\ t - store[k].last_heartbeat <= STALENESS_THRESHOLD}

\* Faulty variant: the heartbeat age is not looked at.
discover_services_any_age(store, service_name, t) ==
    {k \in DOMAIN store :
        /\ (service_name = "none" \/ k[1] = service_name)
        /\ store[k].complete}

\* discover_services(service_name): the keys of the records returned from
\* a scan of the store at time t.
discover_services(store, service_name, t) ==
    {k \in DOMAIN store :
        /\ (service_name = "none" \/ k[1] = service_name)
        /\ store[k].complete
        /\ t - store[k].last_heartbeat <= STALENESS_THRESHOLD}

RegistryFrame ==
    UNCHANGED <<breakerVars, clientVars, prev, run, poolVars, connVars, mgrVars, taskVars,
                cleanupVars, histVars, valVars, cfgVars, fetchVars, d_pc, cfgObsVars, who,
                arg, ret, sdVars>>

\* Some process writes a record under a key of the store.
StoreWrite(k, rec) ==
    /\ reg_store' = dict_put(reg_store, k, rec)
    /\ op' = "store_write"
    /\ UNCHANGED <<now, reg_filter, reg_result>>
    /\ RegistryFrame

\* A record expires or is deleted.
StoreExpire(k) ==
    /\ k \in DOMAIN reg_store
    /\ reg_store' = [x \in DOMAIN reg_store \ {k} |-> reg_store[x]]
    /\ op' = "store_expire"
    /\ UNCHANGED <<now, reg_filter, reg_result>>
    /\ RegistryFrame

\* A minute passes.
RegistryTick ==
    /\ now < MaxRegistryTime
    /\ now' = now + 1
    /\ op' = "tick"
    /\ UNCHANGED regVars
    /\ RegistryFrame

\* discover_services(service_name) is called and returns.
DiscoverServices(service_name) ==
    /\ reg_filter' = service_name
    /\ reg_result' = {[key |-> k, record |-> reg_store[k]] :
                         k \in discover_services(reg_store, service_name, now)}
    /\ op' = "discover_services"
    /\ UNCHANGED <<now, reg_store>>
    /\ RegistryFrame

InitR ==
    /\ InitBreakerDefault /\ InitClock /\ InitClient /\ InitObs /\ InitNoClients /\ InitNoManager
    /\ InitNoValue /\ InitNoConfigClient /\ InitNoRegistry

NextRegistry ==
    \/ \E k \in RegistryKeys, rec \in RegistryRecords : StoreWrite(k, rec)
    \/ \E k \in RegistryKeys : StoreExpire(k)
    \/ \E service_name \in ServiceNames \cup {"none"} : DiscoverServices(service_name)
    \/ RegistryTick

\* A registry store written by any process, read by discover_services.
SpecRegistry == InitR /\ [][NextRegistry]_vars

\* ------------------------------------------- ServiceDiscovery lifecycle
\* The record of this instance, the heartbeat loop that refreshes it, and
\* the server's set-up and shut-down of the ServiceDiscovery object. Time is
\* relative here: a time step ages the interval sleep and the records'
\* time to live, and `now` stays at the origin.

\* How much longer than the heartbeat interval a record lives.
TTL_SLACK == 1

\* The registry key of this instance.
OwnKey == <<"risk-monitor", "instance1">>

\* Faulty variant: the record lives no longer than the heartbeat interval.
record_ttl_no_slack(interval) == interval

\* The expiration register_service() sets on the record.
record_ttl(interval) == interval + TTL_SLACK

\* Faulty variant: a failed write ends the loop.
after_write_failure_stops == "done"

\* Where the loop goes after a store write that failed: the failure is
\* logged and the next tick is awaited.
after_write_failure == "sleeping"

\* Faulty variant: the failure handling catches the cancellation too and
\* the loop goes on.
after_cancellation_swallowed == "sleeping"

\* Where the loop goes when the cancellation is delivered.
after_cancellation == "done"

\* Faulty variant: releasing a store connection that was never made raises.
disconnect_unconnected_raises(client) ==
    IF client = "connected" THEN "None" ELSE "raised"

\* disconnect(): what the call does for each state of the store client.
disconnect(client) == "None"

without(d, k) == [x \in DOMAIN d \ {k} |-> d[x]]

\* The store after the record of this instance is written with its
\* expiration.
WriteRecord ==
    /\ reg_store' = dict_put(reg_store, OwnKey, [complete |-> TRUE, last_heartbeat |-> now])
    /\ reg_ttl' = dict_put(reg_ttl, OwnKey, record_ttl(health_check_interval))

ServerFrame ==
    UNCHANGED <<breakerVars, now, clientVars, prev, run, poolVars, connVars, mgrVars, taskVars,
                cleanupVars, got, err, held, handed, valVars, cfgVars, fetchVars, d_pc,
                cfgObsVars, who, arg, reg_filter, reg_result, health_check_interval>>

DiscoveryFrame == ServerFrame /\ UNCHANGED srvVars

\* connect(): the store client is created and pinged.
SdConnect(reachable) ==
    /\ alive
    /\ sd_client' = IF reachable THEN "connected" ELSE "unreachable"
    /\ op' = "connect"
    /\ ret' = IF reachable THEN "None" ELSE "ConnectionError"
    /\ UNCHANGED <<server_sd, server_pc, loopVars, alive, reg_store, reg_ttl, seen>>
    /\ DiscoveryFrame

\* register_service(): the record is written with its expiration, or the
\* write fails.
RegisterService(ok) ==
    /\ alive
    /\ IF ok /\ sd_client = "connected"
       THEN WriteRecord /\ ret' = "None"
       ELSE UNCHANGED <<reg_store, reg_ttl>> /\ ret' = "RegistrationError"
    /\ op' = "register_service"
    /\ UNCHANGED <<objVars, loopVars, alive, seen>>
    /\ DiscoveryFrame

\* disconnect(): the store connection is released.
SdDisconnect ==
    /\ alive
    /\ sd_client' = "none"
    /\ op' = "disconnect"
    /\ ret' = disconnect(sd_client)
    /\ seen' = sd_client
    /\ UNCHANGED <<server_sd, server_pc, loopVars, alive, reg_store, reg_ttl>>
    /\ DiscoveryFrame

\* DualProtocolServer.setup_service_discovery(): the object is created and
\* kept, then connected and registered; any failure is logged and set-up
\* goes on without service discovery.
SetupServiceDiscovery(reachable, ok) ==
    /\ alive
    /\ server_pc = "new"
    /\ server_sd' = TRUE
    /\ sd_client' = IF reachable THEN "connected" ELSE "unreachable"
    /\ IF reachable /\ ok
       THEN WriteRecord
       ELSE UNCHANGED <<reg_store, reg_ttl>>
    /\ server_pc' = "running"
    /\ op' = "setup_service_discovery"
    /\ ret' = "None"
    /\ UNCHANGED <<loopVars, alive, seen>>
    /\ DiscoveryFrame

\* `if self.service_discovery:` of shutdown(): disconnect() is called if the
\* server holds a ServiceDiscovery object; ret is what disconnect() did.
ShutdownDiscovery ==
    IF server_sd
    THEN /\ sd_client' = "none"
         /\ ret' = disconnect(sd_client)
         /\ seen' = sd_client
    ELSE /\ UNCHANGED sd_client
         /\ ret' = "None"
         /\ seen' = "not called"

\* DualProtocolServer.shutdown() of a server whose HTTP and gRPC servers are
\* left out of the picture.
Shutdown ==
    /\ alive
    /\ server_pc = "running"
    /\ ShutdownDiscovery
    /\ server_pc' = "stopped"
    /\ op' = "shutdown"
    /\ UNCHANGED <<server_sd, loopVars, alive, reg_store, reg_ttl>>
    /\ DiscoveryFrame

\* A task running _heartbeat_loop() is created.
HeartbeatStart ==
    /\ alive
    /\ hb_pc \in {"none", "done"}
    /\ hb_pc' = "sleeping"
    /\ hb_sleep' = health_check_interval
    /\ hb_cancel' = FALSE
    /\ hb_ok' = FALSE
    /\ op' = "heartbeat_start"
    /\ UNCHANGED <<objVars, alive, reg_store, reg_ttl, ret, seen>>
    /\ DiscoveryFrame

\* The interval sleep is over: a tick starts with the store write.
HeartbeatWake ==
    /\ alive
    /\ hb_pc = "sleeping" /\ hb_sleep = 0 /\ ~hb_cancel
    /\ hb_pc' = "writing"
    /\ op' = "heartbeat_wake"
    /\ UNCHANGED <<objVars, hb_sleep, hb_cancel, hb_ok, alive, reg_store, reg_ttl, ret, seen>>
    /\ DiscoveryFrame

\* The store write of a tick completes or fails. Without a cancellation
\* request the loop sleeps until the next tick; with one, the in-flight
\* write still completes or fails and then the cancellation is delivered.
HeartbeatWrite(ok) ==
    /\ alive
    /\ hb_pc = "writing"
    /\ IF ok /\ sd_client = "connected"
       THEN WriteRecord /\ hb_ok' = TRUE /\ ret' = "written"
       ELSE UNCHANGED <<reg_store, reg_ttl>> /\ hb_ok' = FALSE /\ ret' = "write failed"
    /\ IF hb_cancel
       THEN /\ hb_pc' = after_cancellation
            /\ hb_cancel' = (after_cancellation = "done")
       ELSE /\ hb_pc' = IF ok /\ sd_client = "connected"
                         THEN "sleeping" ELSE after_write_failure
            /\ hb_cancel' = FALSE
    /\ hb_sleep' = health_check_interval
    /\ op' = "heartbeat_write"
    /\ UNCHANGED <<objVars, alive, seen>>
    /\ DiscoveryFrame

\* task.cancel() on the heartbeat task.
HeartbeatCancel ==
    /\ alive
    /\ hb_pc \in {"sleeping", "writing"} /\ ~hb_cancel
    /\ hb_cancel' = TRUE
    /\ op' = "heartbeat_cancel"
    /\ UNCHANGED <<objVars, hb_pc, hb_sleep, hb_ok, alive, reg_store, reg_ttl, ret, seen>>
    /\ DiscoveryFrame

\* The cancellation is delivered to the loop suspended at the interval
\* sleep.
HeartbeatCancelled ==
    /\ alive
    /\ hb_pc = "sleeping" /\ hb_cancel
    /\ hb_pc' = after_cancellation
    /\ hb_cancel' = (after_cancellation = "done")
    /\ hb_sleep' = IF after_cancellation = "done" THEN 0 ELSE health_check_interval
    /\ op' = "heartbeat_cancelled"
    /\ UNCHANGED <<objVars, hb_ok, alive, reg_store, reg_ttl, ret, seen>>
    /\ DiscoveryFrame

\* The process of the instance dies: nothing of it runs any more.
Crash ==
    /\ alive
    /\ alive' = FALSE
    /\ hb_pc' = "none"
    /\ hb_sleep' = 0
    /\ op' = "crash"
    /\ UNCHANGED <<objVars, hb_cancel, hb_ok, reg_store, reg_ttl, ret, seen>>
    /\ DiscoveryFrame

\* A record whose time to live is over leaves the store.
RecordExpires(k) ==
    /\ k \in DOMAIN reg_ttl /\ reg_ttl[k] = 0
    /\ reg_store' = without(reg_store, k)
    /\ reg_ttl' = without(reg_ttl, k)
    /\ op' = "record_expires"
    /\ UNCHANGED <<objVars, loopVars, alive, ret, seen>>
    /\ DiscoveryFrame

\* One unit of time passes, once everything due now has happened: the
\* expirations, the wake-up of the loop and the store write in flight.
DiscoveryTime ==
    /\ \A k \in DOMAIN reg_ttl : reg_ttl[k] > 0
    /\ alive => ~(hb_pc = "sleeping" /\ hb_sleep = 0) /\ hb_pc # "writing"
    /\ reg_ttl' = [k \in DOMAIN reg_ttl |-> reg_ttl[k] - 1]
    /\ hb_sleep' = IF hb_sleep > 0 THEN hb_sleep - 1 ELSE 0
    /\ op' = "time"
    /\ UNCHANGED <<objVars, hb_pc, hb_cancel, hb_ok, alive, reg_store, ret, seen>>
    /\ DiscoveryFrame

InitD ==
    /\ InitBreakerDefault /\ InitClock /\ InitClient /\ InitObs /\ InitNoClients /\ InitNoManager
    /\ InitNoValue /\ InitNoConfigClient
    /\ reg_store = EmptyDict /\ reg_filter = "none" /\ reg_result = {}
    /\ health_check_interval \in 1..MaxInterval
    /\ InitNoDiscovery

HeartbeatStep ==
    \/ HeartbeatWake
    \/ \E ok \in BOOLEAN : HeartbeatWrite(ok)
    \/ HeartbeatCancelled

NextDiscovery ==
    \/ \E reachable \in BOOLEAN : SdConnect(reachable)
    \/ \E ok \in BOOLEAN : RegisterService(ok)
    \/ SdDisconnect
    \/ \E reachable, ok \in BOOLEAN : SetupServiceDiscovery(reachable, ok)
    \/ Shutdown
    \/ HeartbeatStart
    \/ HeartbeatStep
    \/ HeartbeatCancel
    \/ Crash
    \/ \E k \in RegistryKeys : RecordExpires(k)
    \/ DiscoveryTime
    \/ DiscoverServices("none")

\* One instance with its ServiceDiscovery object, heartbeat loop and record.
SpecDiscovery == InitD /\ [][NextDiscovery]_vars

\* The event loop runs the heartbeat task whenever it can take a step, time
\* passes, and the store drops the records whose time to live is over.
FairDiscovery ==
    /\ SpecDiscovery
    /\ WF_vars(HeartbeatStep)
    /\ WF_vars(DiscoveryTime)
    /\ WF_vars(\E k \in RegistryKeys : RecordExpires(k))

\* ------------------------------------------------- DualProtocolServer.run
\* run() after its set-up: the three awaitables of the gather, the signal
\* handler, and shutdown() in the finally clause, which is reached when the
\* gather is over, that is when each of its three tasks has ended.

\* asyncio.gather(..., return_exceptions=True) is over.
GatherOver ==
    /\ http_pc \in {"returned", "failed"}
    /\ grpc_pc \in {"returned", "failed"}
    /\ wait_pc = "returned"

\* run() reaches `await asyncio.gather(...)`: the three tasks exist.
RunGather ==
    /\ alive
    /\ server_pc = "running"
    /\ http_pc' = "starting"
    /\ grpc_pc' = "creating"
    /\ wait_pc' = "waiting"
    /\ server_pc' = "serving"
    /\ op' = "run"
    /\ ret' = "none"
    /\ UNCHANGED <<sd_client, server_sd, loopVars, alive, reg_store, reg_ttl, seen,
                   shutdown_event, http_server, grpc_server>>
    /\ ServerFrame

\* A SIGTERM or SIGINT arrives. The handler of setup_signal_handlers sets
\* shutdown_event; while uvicorn serves, the handlers it installed for the
\* same signals are the ones in place, and they ask the HTTP server to exit.
Signal(by) ==
    /\ alive
    /\ server_pc \in {"new", "running", "serving"}
    /\ IF by = "uvicorn"
       THEN /\ http_pc = "serving"
            /\ http_server' = "should_exit"
            /\ UNCHANGED shutdown_event
       ELSE /\ shutdown_event' = TRUE
            /\ UNCHANGED http_server
    /\ op' = "signal"
    /\ ret' = "none"
    /\ seen' = by
    /\ UNCHANGED <<objVars, loopVars, alive, reg_store, reg_ttl, http_pc, grpc_pc, wait_pc,
                   grpc_server>>
    /\ ServerFrame

\* start_http_server() up to `await self.http_server.serve()`, or an
\* exception before the server object exists: shutdown_event is set and the
\* exception re-raised.
HttpStart(ok) ==
    /\ alive
    /\ http_pc = "starting"
    /\ IF ok
       THEN /\ http_pc' = "serving"
            /\ http_server' = "created"
            /\ UNCHANGED shutdown_event
       ELSE /\ http_pc' = "failed"
            /\ shutdown_event' = TRUE
            /\ UNCHANGED http_server
    /\ op' = "start_http_server"
    /\ ret' = IF ok THEN "none" ELSE "Exception"
    /\ UNCHANGED <<objVars, loopVars, alive, reg_store, reg_ttl, seen, grpc_pc, wait_pc,
                   grpc_server>>
    /\ ServerFrame

\* serve() ends: it returns once the server was asked to exit, or it raises
\* and start_http_server sets shutdown_event.
HttpServeEnds(ok) ==
    /\ alive
    /\ http_pc = "serving"
    /\ IF ok
       THEN /\ http_server = "should_exit"
            /\ http_pc' = "returned"
            /\ UNCHANGED shutdown_event
       ELSE /\ http_pc' = "failed"
            /\ shutdown_event' = TRUE
    /\ op' = "start_http_server"
    /\ ret' = IF ok THEN "None" ELSE "Exception"
    /\ UNCHANGED <<objVars, loopVars, alive, reg_store, reg_ttl, seen, grpc_pc, wait_pc,
                   http_server, grpc_server>>
    /\ ServerFrame

\* start_grpc_server() up to `await self.grpc_server.wait_for_termination()`,
\* or create_grpc_server raised.
GrpcStart(ok) ==
    /\ alive
    /\ grpc_pc = "creating"
    /\ IF ok
       THEN /\ grpc_pc' = "waiting"
            /\ grpc_server' = "created"
            /\ UNCHANGED shutdown_event
       ELSE /\ grpc_pc' = "failed"
            /\ shutdown_event' = TRUE
            /\ UNCHANGED grpc_server
    /\ op' = "start_grpc_server"
    /\ ret' = IF ok THEN "none" ELSE "Exception"
    /\ UNCHANGED <<objVars, loopVars, alive, reg_store, reg_ttl, seen, http_pc, wait_pc,
                   http_server>>
    /\ ServerFrame

\* wait_for_termination() ends: it returns once the server was stopped, or
\* it raises and start_grpc_server sets shutdown_event.
GrpcWaitEnds(ok) ==
    /\ alive
    /\ grpc_pc = "waiting"
    /\ IF ok
       THEN /\ grpc_server = "stopping"
            /\ grpc_pc' = "returned"
            /\ UNCHANGED shutdown_event
       ELSE /\ grpc_pc' = "failed"
            /\ shutdown_event' = TRUE
    /\ op' = "start_grpc_server"
    /\ ret' = IF ok THEN "None" ELSE "Exception"
    /\ UNCHANGED <<objVars, loopVars, alive, reg_store, reg_ttl, seen, http_pc, wait_pc,
                   http_server, grpc_server>>
    /\ ServerFrame

\* _wait_for_shutdown(): shutdown_event.wait() returns.
WaitForShutdown ==
    /\ alive
    /\ wait_pc = "waiting"
    /\ shutdown_event
    /\ wait_pc' = "returned"
    /\ op' = "wait_for_shutdown"
    /\ ret' = "None"
    /\ UNCHANGED <<objVars, loopVars, alive, reg_store, reg_ttl, seen, shutdown_event,
                   http_pc, grpc_pc, http_server, grpc_server>>
    /\ ServerFrame

\* The finally clause of run(): shutdown() disconnects the service
\* discovery, sets should_exit on the HTTP server and stops the gRPC server,
\* each if the object exists.
RunShutdown ==
    /\ alive
    /\ server_pc = "serving"
    /\ GatherOver
    /\ ShutdownDiscovery
    /\ http_server' = IF http_server = "none" THEN "none" ELSE "should_exit"
    /\ grpc_server' = IF grpc_server = "none" THEN "none" ELSE "stopping"
    /\ server_pc' = "stopped"
    /\ op' = "shutdown"
    /\ UNCHANGED <<server_sd, loopVars, alive, reg_store, reg_ttl, shutdown_event,
                   http_pc, grpc_pc, wait_pc>>
    /\ ServerFrame

InitS ==
    /\ InitBreakerDefault /\ InitClock /\ InitClient /\ InitObs /\ InitNoClients /\ InitNoManager
    /\ InitNoValue /\ InitNoConfigClient /\ InitNoRegistry

\* The steps the event loop takes on its own once they are possible.
ServerStep ==
    \/ RunGather
    \/ HttpStart(TRUE)
    \/ HttpServeEnds(TRUE)
    \/ GrpcStart(TRUE)
    \/ GrpcWaitEnds(TRUE)
    \/ WaitForShutdown
    \/ RunShutdown

NextServer ==
    \/ \E reachable, ok \in BOOLEAN : SetupServiceDiscovery(reachable, ok)
    \/ RunGather
    \/ \E by \in {"handler", "uvicorn"} : Signal(by)
    \/ \E ok \in BOOLEAN : HttpStart(ok)
    \/ \E ok \in BOOLEAN : HttpServeEnds(ok)
    \/ \E ok \in BOOLEAN : GrpcStart(ok)
    \/ \E ok \in BOOLEAN : GrpcWaitEnds(ok)
    \/ WaitForShutdown
    \/ RunShutdown

\* One DualProtocolServer from run() to the end of shutdown().
SpecServer == InitS /\ [][NextServer]_vars

\* The event loop runs every task that can go on, and set-up ends.
FairServer ==
    /\ SpecServer
    /\ WF_vars(\E reachable, ok \in BOOLEAN : SetupServiceDiscovery(reachable, ok))
    /\ WF_vars(ServerStep)

\* ------------------------------------------------------------------ claims

\* C1: from construction or the last on_success(), the breaker stays CLOSED
\* and can_execute() returns true while fewer than failure_threshold
\* on_failure() calls were made; the on_failure() call that makes their number
\* (and failure_count) equal failure_threshold is the one that moves CLOSED to
\* OPEN, and a can_execute() right after it returns false.
C1_OpensExactlyAtThreshold ==
    /\ [](run < failure_threshold =>
            /\ state = "CLOSED"
            /\ (op = "can_execute" => ret = "true"))
    /\ [][/\ op' = "on_failure" =>
               /\ failure_count' = run'
               /\ (run' = failure_threshold) <=> (state = "CLOSED" /\ state' = "OPEN")
          /\ (op = "on_failure" /\ run = failure_threshold /\ op' = "can_execute") =>
               (ret' = "false" /\ state' = "OPEN")]_vars

C1_Witness ==
    /\ failure_threshold > 1
    /\ run = failure_threshold
    /\ op = "can_execute"
    /\ ret = "false"
    /\ state = "OPEN"
    /\ last_failure_time = now

\* C2: a can_execute() on an OPEN breaker whose cooldown has not passed
\* (now - last_failure_time <= timeout) returns false and leaves state,
\* failure_count and last_failure_time as they were; one called after the
\* cooldown has passed returns true and leaves the state HALF_OPEN.
C2_OpenRejectsUntilCooldown ==
    [][(op' = "can_execute" /\ state = "OPEN") =>
         IF now - last_failure_time > timeout
         THEN ret' = "true" /\ state' = "HALF_OPEN"
         ELSE /\ ret' = "false"
              /\ UNCHANGED <<state, failure_count, last_failure_time>>]_vars

C2_Witness ==
    /\ op = "can_execute"
    /\ prev = "OPEN"
    /\ state = "HALF_OPEN"
    /\ ret = "true"
    /\ timeout > 0

\* C3: while a probe is outstanding (the breaker is HALF_OPEN), every further
\* _make_call is refused with "Circuit breaker open".
C3_SingleProbe ==
    [][(op' = "make_call" /\ state = "HALF_OPEN") =>
         ret' = "Circuit breaker open"]_vars

\* C4: on_failure() on a HALF_OPEN breaker leaves it OPEN with
\* last_failure_time = now; on_success() on a HALF_OPEN breaker leaves it
\* CLOSED with failure_count 0.
C4_HalfOpenOutcome ==
    [][state = "HALF_OPEN" =>
         /\ op' = "on_failure" => (state' = "OPEN" /\ last_failure_time' = now)
         /\ op' = "on_success" => (state' = "CLOSED" /\ failure_count' = 0)]_vars

C4_Witness ==
    /\ prev = "HALF_OPEN"
    /\ op = "on_failure"
    /\ state = "OPEN"
    /\ last_failure_time = now
    /\ last_failure_time > 1

\* C5: a _make_call started while the breaker refuses (OPEN, cooldown not
\* passed) raises "Circuit breaker open", does not reach _execute_call and
\* leaves call_count, error_count, failure_count and last_failure_time as they
\* were; this is the case of every call started after failure_threshold
\* failures in a row and before the cooldown has passed.
C5_FailFast ==
    [][op' = "make_call" =>
         /\ (state = "OPEN" /\ now - last_failure_time <= timeout) =>
              /\ ret' = "Circuit breaker open"
              /\ call_pc'[who'] = "idle"
              /\ UNCHANGED <<call_count, error_count, failure_count,
                             last_failure_time, call_pc>>
         /\ (run >= failure_threshold /\ now - last_failure_time <= timeout) =>
              ret' = "Circuit breaker open"
         /\ ret' = "Circuit breaker open" =>
              UNCHANGED <<call_count, error_count, failure_count,
                          last_failure_time, call_pc>>]_vars

C5_Witness ==
    /\ op = "make_call"
    /\ ret = "Circuit breaker open"
    /\ run = failure_threshold
    /\ failure_threshold > 1
    /\ call_count = failure_threshold
    /\ error_count = failure_threshold

\* The channels created for address a.
ChannelsFor(a) == {i \in 1..Len(chans) : chans[i].addr = a}

\* C6: with no cleanup, at most one channel was ever created per address, and
\* two clients of one address that have both connected hold the same channel,
\* the one in the pool.
C6_OneChannelPerAddress ==
    /\ \A a \in Addrs : Cardinality(ChannelsFor(a)) <= 1
    /\ \A c1, c2 \in Clients :
         (c_addr[c1] = c_addr[c2] /\ c_channel[c1] # 0 /\ c_channel[c2] # 0) =>
            /\ c_channel[c1] = c_channel[c2]
            /\ c_channel[c1] = channels[c_addr[c1]]

C6_Witness ==
    \E c1, c2 \in Clients :
        /\ c1 # c2
        /\ c_addr[c1] = c_addr[c2]
        /\ is_connected(c1) /\ is_connected(c2)
        /\ conn_pc[c1] = "idle" /\ conn_pc[c2] = "idle"
        /\ c_channel[c1] = channels[c_addr[c1]]

\* C7: whatever the interleaving of the connect() calls of several clients of
\* one address, every channel created is still the pool's entry of its address
\* (none lost or overwritten), and every client whose connect() is under way
\* holds the single channel created for its address.
C7_NoDuplicateUnderConcurrency ==
    /\ \A i \in 1..Len(chans) : channels[chans[i].addr] = i
    /\ \A c \in Clients :
         conn_pc[c] = "probing" =>
            /\ ChannelsFor(c_addr[c]) = {c_channel[c]}
            /\ channels[c_addr[c]] = c_channel[c]

C7_Witness ==
    \E c1, c2 \in Clients :
        /\ c1 # c2
        /\ c_addr[c1] = c_addr[c2]
        /\ conn_pc[c1] = "probing" /\ conn_pc[c2] = "probing"
        /\ ~c_connected[c1] /\ ~c_connected[c2]
        /\ c_channel[c1] = c_channel[c2]

\* C8: disconnect() makes the client's is_connected() false and changes
\* neither the pool, nor any channel, nor any other client.
C8_DisconnectFrame ==
    [][op' = "disconnect" =>
         /\ ~(c_connected'[who'] /\ c_channel'[who'] # 0)
         /\ UNCHANGED <<channels, chans, c_channel>>
         /\ \A c \in Clients \ {who'} : c_connected'[c] = c_connected[c]]_vars

C8_Witness ==
    \E c1, c2 \in Clients :
        /\ c1 # c2
        /\ op = "disconnect"
        /\ who = c1
        /\ ~is_connected(c1)
        /\ is_connected(c2)
        /\ c_channel[c1] = c_channel[c2]
        /\ channels[c_addr[c1]] = c_channel[c1]

\* C9: a connect() on a client whose _connected is false ends connected
\* exactly when the probe answered SERVING or UNIMPLEMENTED; on every other
\* probe outcome it raises ServiceCommunicationError and the client stays
\* not connected.
C9_ConnectOutcome ==
    [][(op' = "connect" /\ ~c_connected[who']) =>
         IF arg' \in {"SERVING", "UNIMPLEMENTED"}
         THEN (c_connected'[who'] /\ c_channel'[who'] # 0) /\ ret' = "none"
         ELSE ~(c_connected'[who'] /\ c_channel'[who'] # 0) /\ ret' = "ServiceCommunicationError"]_vars

C9_Witness ==
    /\ op = "connect"
    /\ arg = "UNIMPLEMENTED"
    /\ is_connected(who)
    /\ ret = "none"

\* C10: a get_<service>_client call made while the client last returned for
\* the service is connected (and was not disconnected since) returns that
\* client and changes nothing: no lookup or connect is started, and the
\* manager, the clients and the pool stay as they were.
C10_CachedClientIsReturned ==
    [][\A svc \in Services :
         (/\ \E t \in Tasks, fb \in BOOLEAN : GetStart(t, svc, fb)
          /\ held[svc] # 0
          /\ is_connected(held[svc])) =>
            /\ got' = held[svc]
            /\ UNCHANGED <<mgrVars, taskVars, poolVars, connVars>>]_vars

\* C11: a get_<service>_client call whose registry lookup returned no
\* instance raises ServiceCommunicationError with a message that contains
\* "Service not found"; one whose lookup returned an instance and whose
\* connect() to it failed raises ServiceCommunicationError with a message
\* that contains "Connection failed".
C11_LookupErrors ==
    [][op' = "get_client" =>
         /\ seen' = "no instance" =>
              (ret' = "ServiceCommunicationError" /\ Contains(err', "Service not found"))
         /\ (/\ seen' \in ProbeOutcomes
             /\ test_connection(seen') # "return"
             /\ \E t \in Tasks : t_pc[t] = "connecting" /\ t_pc'[t] = "idle" /\ t_found[t]) =>
              (ret' = "ServiceCommunicationError" /\ Contains(err', "Connection failed"))]_vars

\* The task whose get_<service>_client call took the step.
Started(t) == t_pc[t] = "idle" /\ t_pc'[t] # "idle"

\* C12: a get_<service>_client call that finds no cached client starts a
\* registry lookup if and only if a registry is configured and use_fallback is
\* false; otherwise it goes straight to connect() on a client for the static
\* address of the service, and no lookup is started. A lookup that raises ends
\* the call with ServiceCommunicationError: no client is returned and no
\* client is created or connected for it.
C12_RegistryIffConfigured ==
    [][/\ op' = "get_client_start" /\ seen' \in {"use_fallback", "no_fallback"} =>
            \E t \in Tasks :
               /\ Started(t)
               /\ t_pc'[t] = "lookup" <=> (m_discovery /\ seen' = "no_fallback")
               /\ t_pc'[t] # "lookup" =>
                    /\ t_pc'[t] = "connecting"
                    /\ c_addr'[t_client'[t]] = fallback_addr(arg')
       /\ op' = "get_client_start" /\ seen' = "instance" => m_discovery
       /\ op' = "get_client" /\ seen' = "lookup raised" =>
            /\ ret' = "ServiceCommunicationError"
            /\ got' = 0
            /\ \A t \in Tasks : t_pc'[t] # "connecting" \/ t_pc[t] = "connecting"
            /\ UNCHANGED <<poolVars, connVars, mgrVars>>]_vars

C12_Witness ==
    /\ m_discovery
    /\ op = "get_client_start"
    /\ seen = "use_fallback"
    /\ \E t \in Tasks :
          /\ t_pc[t] = "connecting"
          /\ t_svc[t] = "test-coordinator"
          /\ c_addr[t_client[t]] = fallback_addr("test-coordinator")
          /\ \A u \in Tasks \ {t} : t_pc[u] = "idle"

\* C13: when cleanup() returns, the manager's client cache is empty, the
\* channel pool is empty and connection_pool_size is 0, whether or not a
\* close() raised and whatever was cached or connected before; cleanup()
\* raises nothing.
C13_CleanupEmpties ==
    [][(op' = "cleanup" /\ cl_pc' = "idle") =>
         /\ \A s \in Services : m_clients'[s] = 0
         /\ \A a \in Addrs : channels'[a] = 0
         /\ connection_pool_size' = 0
         /\ ret' = "none"]_vars

C13_Witness ==
    /\ op = "cleanup"
    /\ cl_pc = "idle"
    /\ seen = "close raised"
    /\ \E c \in handed : ~c_connected[c]
    /\ \E i \in 1..Len(chans) : ~chans[i].closed
    /\ \A a \in Addrs : channels[a] = 0
    /\ connection_pool_size = 0

\* The key has the form segment(.segment)*, each segment a letter followed
\* by letters, digits or underscores.
IsSegment(s) ==
    /\ Len(s) > 0
    /\ s[1] \in Letters
    /\ \A i \in 1..Len(s) : s[i] \in Letters \cup Digits \cup {"_"}

RECURSIVE IsKeyForm(_)
IsKeyForm(s) ==
    \/ IsSegment(s)
    \/ \E i \in 2..Len(s) - 1 :
          /\ s[i] = "."
          /\ IsSegment(SubSeq(s, 1, i - 1))
          /\ IsKeyForm(SubSeq(s, i + 1, Len(s)))

HasConsecutiveDots(s) == \E i \in 1..Len(s) - 1 : s[i] = "." /\ s[i + 1] = "."

\* C19: validate() answers false for every key that is empty, has two dots
\* in a row or begins or ends with a dot, and for every type outside
\* {string, number, boolean, json}; it answers true for a key of the form
\* segment(.segment)* with a non-empty value and a supported type.
C19_Validate ==
    v_ret \in {"true", "false"} =>
       /\ (\/ v_key = <<>>
           \/ HasConsecutiveDots(v_key)
           \/ v_key[1] = "."
           \/ v_key[Len(v_key)] = "."
           \/ v_type \notin {"string", "number", "boolean", "json"}) => v_ret = "false"
       /\ (/\ IsKeyForm(v_key)
           /\ v_value # ""
           /\ v_type \in {"string", "number", "boolean", "json"}) => v_ret = "true"

C19_Witness ==
    /\ v_key = <<"a", ".", "b", "_", "c">>
    /\ v_value = "x"
    /\ v_type = "string"
    /\ v_ret = "true"

\* The step is a call of get_configuration (up to its return, raise or
\* await), with arguments key_arg' and env_arg'.
GetConfigurationCalled ==
    /\ op' \in {"get_configuration", "get_configuration_start"}
    /\ seen' \in {"raise", "hit", "miss"}

\* The step is the return of a get_configuration that fetched.
GetConfigurationFetched == op' = "get_configuration" /\ seen' = "ok"

\* The environment a call names: the configured one when it names none.
NamedEnv(env) == IF env = "none" THEN "development" ELSE env

\* C14: a get_configuration that fetched leaves the value it returns in the
\* cache under its key and environment; a later get_configuration for the
\* same key and environment, made on the connected client before the entry's
\* expiry, returns that very value without a fetch and is counted as a hit:
\* cache_hits grows by one and the miss counter stays.
C14_SecondCallIsHit ==
    [][/\ GetConfigurationFetched =>
            /\ <<key_arg', NamedEnv(env_arg')>> \in DOMAIN cfg_cache'
            /\ cfg_cache'[<<key_arg', NamedEnv(env_arg')>>] = cfg_val'
            /\ ret' = "value"
       /\ (/\ GetConfigurationCalled
           /\ cfg_connected
           /\ <<key_arg', NamedEnv(env_arg')>> \in DOMAIN cfg_cache
           /\ now < cfg_cache[<<key_arg', NamedEnv(env_arg')>>].cached_at + default_cache_ttl) =>
            /\ ret' = "value"
            /\ cfg_val' = cfg_cache[<<key_arg', NamedEnv(env_arg')>>]
            /\ cache_hits' = cache_hits + 1
            /\ cache_misses' = cache_misses
            /\ UNCHANGED <<g_pc, cfg_cache, cfg_cache_ttl>>]_vars

C14_Witness ==
    /\ op = "get_configuration"
    /\ seen = "hit"
    /\ env_arg = "none"
    /\ cache_hits = 1
    /\ cache_misses = 1
    /\ cfg_val.value \in ConfigValues
    /\ cfg_val = cfg_cache[<<key_arg, "development">>]
    /\ \A t \in ConfigTasks : g_pc[t] = "idle"

\* C15: get_configuration returns a value from the cache only while the
\* time is strictly before the time the value was cached plus the cache
\* lifetime; with an entry that is not, it issues a remote fetch, and a
\* fetch that succeeds replaces the entry and sets its expiry to the time of
\* caching plus the cache lifetime.
C15_NoExpiredEntryServed ==
    [][/\ (GetConfigurationCalled /\ ret' = "value") =>
            now < cfg_val'.cached_at + default_cache_ttl
       /\ (/\ GetConfigurationCalled
           /\ cfg_connected
           /\ <<key_arg', NamedEnv(env_arg')>> \in DOMAIN cfg_cache
           /\ now >= cfg_cache[<<key_arg', NamedEnv(env_arg')>>].cached_at + default_cache_ttl) =>
            (ret' = "fetch" /\ \E t \in ConfigTasks : g_pc[t] = "idle" /\ g_pc'[t] = "fetching")
       /\ GetConfigurationFetched =>
            /\ cfg_cache'[<<key_arg', NamedEnv(env_arg')>>].cached_at = now
            /\ cfg_cache_ttl'[<<key_arg', NamedEnv(env_arg')>>] = now + default_cache_ttl]_vars

C15_Witness ==
    /\ op = "get_configuration_start"
    /\ ret = "fetch"
    /\ <<key_arg, NamedEnv(env_arg)>> \in DOMAIN cfg_cache
    /\ now = cfg_cache[<<key_arg, NamedEnv(env_arg)>>].cached_at + default_cache_ttl

\* C16: a get_configuration whose key does not have the form
\* segment(.segment)* raises ConfigurationError and changes nothing: no fetch
\* is issued, and the cache and the hit and miss counters stay.
C16_InvalidKeyRejected ==
    [][(GetConfigurationCalled /\ ~IsKeyForm(key_arg')) =>
         /\ ret' = "ConfigurationError"
         /\ UNCHANGED <<cfgVars, fetchVars>>]_vars

\* The pattern matches the key: it is the key, or it is p* and the key
\* starts with p.
PatternMatches(key, pattern) ==
    \/ pattern = key
    \/ \E n \in 0..Len(key) : pattern = SubSeq(key, 1, n) \o <<"*">>

\* The number of times callback cb was invoked with the key and the value.
TimesInvoked(inv, cb, key, value) ==
    Cardinality({i \in 1..Len(inv) :
                    inv[i] = [callback |-> cb, key |-> key, value |-> value]})

\* C17: when a trigger_update_notification(key) ends after a successful
\* re-fetch, every callback subscribed under a pattern that matches the key
\* was invoked exactly once, with the key and the fetched value, no other
\* callback was invoked, and nothing was raised, whichever callbacks raised.
C17_MatchingCallbacksInvoked ==
    [][(op' = "trigger_update_notification" /\ seen' = "ok") =>
         /\ ret' = "none"
         /\ cfg_val'.value \in ConfigValues
         /\ \A i \in 1..Len(subscribers) : \A cb \in Range(subscribers[i].callbacks) :
               IF PatternMatches(key_arg', subscribers[i].pattern)
               THEN TimesInvoked(invoked', cb, key_arg', cfg_val') = 1
               ELSE \A j \in 1..Len(invoked') : invoked'[j].callback # cb
         /\ \A j \in 1..Len(invoked') :
               \E i \in 1..Len(subscribers) : invoked'[j].callback \in Range(subscribers[i].callbacks)]_vars

C17_Witness ==
    /\ op = "trigger_update_notification"
    /\ seen = "ok"
    /\ Len(invoked) = 2
    /\ invoked[1].callback \in cb_raised
    /\ invoked[2].callback \notin cb_raised
    /\ Len(subscribers) = 2

\* C18: the value a get_configuration returns from the cache was fetched for
\* the environment the call names (the configured environment when it names
\* none), whatever was cached for the key under other environments.
C18_NoCrossEnvironmentHit ==
    [][(GetConfigurationCalled /\ ret' = "value") =>
         cfg_val'.environment = NamedEnv(env_arg')]_vars

C18_Witness ==
    /\ op = "get_configuration_start"
    /\ ret = "fetch"
    /\ env_arg = "production"
    /\ <<key_arg, "development">> \in DOMAIN cfg_cache
    /\ now < cfg_cache_ttl[<<key_arg, "development">>]
    /\ <<key_arg, "production">> \notin DOMAIN cfg_cache

\* C20: whatever the store holds and whatever the time, discover_services()
\* returns no record whose heartbeat age, now - last_heartbeat, exceeds the
\* staleness threshold of 5 minutes, and returns every complete record of the
\* services asked for whose age is within it.
C20_NoStaleRecord ==
    op = "discover_services" =>
       /\ \A r \in reg_result :
             /\ r.key \in DOMAIN reg_store
             /\ r.record = reg_store[r.key]
             /\ now - r.record.last_heartbeat <= 5
       /\ \A k \in DOMAIN reg_store :
             (/\ reg_store[k].complete
              /\ now - reg_store[k].last_heartbeat <= 5
              /\ reg_filter \in {"none", k[1]}) =>
                [key |-> k, record |-> reg_store[k]] \in reg_result

C20_Witness ==
    /\ op = "discover_services"
    /\ reg_filter = "none"
    /\ \E k1, k2 \in DOMAIN reg_store :
          /\ reg_store[k1].complete /\ reg_store[k2].complete
          /\ now - reg_store[k1].last_heartbeat = 6
          /\ now - reg_store[k2].last_heartbeat = 5
          /\ reg_result = {[key |-> k2, record |-> reg_store[k2]]}

\* C21: a registry record that lacks a required field is skipped by
\* discover_services(): the call returns (it does not raise), the record is
\* not in the result, and the well-formed fresh records of the same scan are
\* still returned.
C21_MalformedSkipped ==
    \A m \in DOMAIN reg_store :
       (/\ op = "discover_services"
        /\ ~reg_store[m].complete
        /\ reg_filter \in {"none", m[1]}) =>
          /\ \A r \in reg_result : r.key # m /\ r.record.complete
          /\ \A k \in DOMAIN reg_store :
                (/\ reg_store[k].complete
                 /\ now - reg_store[k].last_heartbeat <= STALENESS_THRESHOLD
                 /\ reg_filter \in {"none", k[1]}) =>
                   [key |-> k, record |-> reg_store[k]] \in reg_result

C21_Witness ==
    /\ op = "discover_services"
    /\ reg_filter = "none"
    /\ \E m, k \in DOMAIN reg_store :
          /\ ~reg_store[m].complete
          /\ now - reg_store[m].last_heartbeat <= STALENESS_THRESHOLD
          /\ reg_store[k].complete
          /\ now - reg_store[k].last_heartbeat <= STALENESS_THRESHOLD
          /\ reg_result = {[key |-> k, record |-> reg_store[k]]}

\* No heartbeat loop is expected to run: the process died, no loop was
\* started, or its cancellation was requested.
HbStopped == ~alive \/ hb_pc = "none" \/ hb_cancel

\* C22: the heartbeat loop survives store failures: a tick whose store write
\* fails leaves the loop waiting for the next tick, and unless the loop is
\* cancelled (or the process dies) it starts a tick again and again,
\* whatever the writes do.
C22_LoopSurvivesFailures ==
    /\ [][(/\ hb_pc = "writing" /\ ~hb_cancel
           /\ alive' /\ hb_pc' # "writing" /\ ret' = "write failed")
            => hb_pc' = "sleeping"]_vars
    /\ []<>(HbStopped \/ hb_pc = "writing")
    /\ []<>(HbStopped \/ hb_pc = "sleeping")

C22_Witness ==
    /\ alive /\ ~hb_cancel
    /\ hb_pc = "writing"
    /\ op = "heartbeat_wake"
    /\ ret = "write failed"

\* C23: once cancellation of the heartbeat loop is requested, the next step
\* of the loop, from the interval sleep or from the store write, ends it,
\* so no tick starts after the request, a write that fails under a pending
\* request does not keep the loop running, and the loop does end.
C23_CancellationEndsLoop ==
    /\ [][(/\ hb_cancel /\ hb_pc \in {"sleeping", "writing"}
           /\ alive' /\ hb_pc' # hb_pc)
            => hb_pc' = "done"]_vars
    /\ [](hb_cancel => <>(hb_pc \in {"done", "none"}))

C23_Witness ==
    /\ alive /\ hb_cancel
    /\ hb_pc = "done"
    /\ op = "heartbeat_write"
    /\ ret = "write failed"

C25_DisconnectNeverRaises ==
    op \in {"disconnect", "shutdown"} => ret = "None"

C25_Witness ==
    /\ op = "shutdown"
    /\ server_sd
    /\ seen = "unreachable"
    /\ ret = "None"

\* C26: whatever the interleaving of concurrent _make_call invocations on one
\* client, no step takes the breaker from OPEN to CLOSED: it leaves OPEN
\* only for HALF_OPEN, when a call is let through after the cooldown.
C26_NeverOpenToClosed ==
    [][state = "OPEN" =>
         /\ state' # "CLOSED"
         /\ state' = "HALF_OPEN" =>
               (op' = "make_call" /\ now - last_failure_time > timeout)]_vars

\* C27: can_execute() on an OPEN breaker at the moment the time elapsed since
\* last_failure_time equals the cooldown timeout returns true and moves the
\* breaker to HALF_OPEN.
C27_AdmitsAtCooldown ==
    [][(op' = "can_execute" /\ state = "OPEN" /\ now - last_failure_time = timeout) =>
         (ret' = "true" /\ state' = "HALF_OPEN")]_vars

\* C27, amended: can_execute() on an OPEN breaker at the moment the elapsed
\* time equals the cooldown timeout still returns false and leaves the
\* breaker OPEN; it returns true and moves to HALF_OPEN once the elapsed
\* time is greater than the timeout.
C27_RefusesAtCooldown ==
    [][(op' = "can_execute" /\ state = "OPEN") =>
         /\ now - last_failure_time = timeout => (ret' = "false" /\ state' = "OPEN")
         /\ now - last_failure_time > timeout => (ret' = "true" /\ state' = "HALF_OPEN")]_vars

C27_Witness ==
    /\ op = "can_execute"
    /\ prev = "OPEN" /\ state = "OPEN"
    /\ ret = "false"
    /\ timeout > 0
    /\ now - last_failure_time = timeout

\* C28: the message of the error get_<service>_client raises identifies the
\* cause: it contains "Service not found" only when the registry was
\* consulted and returned no instance; for every other cause (the lookup
\* raising, connect() or its probe failing, whatever the error text) it
\* contains "Connection failed" and not "Service not found".
C28_ErrorKindIdentifiesCause ==
    [][(op' = "get_client" /\ ret' = "ServiceCommunicationError") =>
         IF seen' = "no instance"
         THEN Contains(err', "Service not found")
         ELSE Contains(err', "Connection failed") /\ ~Contains(err', "Service not found")]_vars

\* C29: a pooled channel lives as long as its longest holder: no client that
\* reports is_connected() true holds a channel that has been closed.
C29_NoHeldChannelClosed ==
    \A c \in Clients : is_connected(c) => ~chans[c_channel[c]].closed

\* A step in which trigger_update_notification is called.
TriggerCalled ==
    /\ op' \in {"trigger_update_notification", "trigger_update_notification_start"}
    /\ seen' \in {"raise", "hit", "miss", "invalidated"}

\* C30: trigger_update_notification(key), on a connected client and for a
\* well-formed key, invalidates before it fetches: the call leaves no cache
\* entry for the key in any environment and issues a remote fetch for the
\* key, also when an unexpired entry existed; when the fetch has returned,
\* every callback is handed the value just fetched, which is also the one
\* now cached.
C30_InvalidatesBeforeFetch ==
    [][/\ TriggerCalled =>
            /\ \A ck \in DOMAIN cfg_cache' : ck[1] # key_arg'
            /\ (cfg_connected /\ validate_key(key_arg') = "none") =>
                  /\ seen' \in {"miss", "invalidated"}
                  /\ \E t \in ConfigTasks :
                        /\ g_pc[t] = "idle" /\ g_pc'[t] = "fetching"
                        /\ g_key'[t] = key_arg' /\ g_notify'[t]
       /\ (op' = "trigger_update_notification" /\ seen' = "ok") =>
            /\ \E t \in ConfigTasks :
                  g_pc[t] = "fetching" /\ g_notify[t] /\ g_pc'[t] = "idle"
            /\ cfg_val'.cached_at = now
            /\ cfg_cache'[cache_key(key_arg', "none")] = cfg_val'
            /\ \A j \in 1..Len(invoked') : invoked'[j].value = cfg_val']_vars

C30_Witness ==
    /\ op = "trigger_update_notification_start"
    /\ seen = "invalidated"
    /\ \E t \in ConfigTasks : g_pc[t] = "fetching" /\ g_notify[t] /\ g_key[t] = key_arg
    /\ subscribers # <<>>

\* C31: every _make_call let through by the breaker records exactly one
\* outcome on it before it ends: on_success() if _execute_call returned,
\* on_failure() and one more error counted otherwise, also when the task
\* awaiting the call is cancelled.
C31_OutcomeRecorded ==
    [][\A c \in Callers :
         (call_pc[c] = "executing" /\ call_pc'[c] = "idle") =>
            IF ret' = "response"
            THEN /\ failure_count' = on_success(failure_count, state).failure_count
                 /\ state' = on_success(failure_count, state).state
                 /\ error_count' = error_count
            ELSE /\ failure_count' = failure_count + 1
                 /\ last_failure_time' = now
                 /\ error_count' = error_count + 1]_vars

\* C32: on a breaker with failure_threshold >= 1 driven by can_execute(),
\* on_success() and on_failure(), the state is CLOSED exactly when
\* failure_count < failure_threshold.
C32_ClosedIffBelowThreshold ==
    failure_threshold >= 1 => (state = "CLOSED" <=> failure_count < failure_threshold)

C32_Witness ==
    /\ state = "HALF_OPEN"
    /\ failure_threshold = 2
    /\ failure_count > failure_threshold

\* C33: in every state of a manager, connection_pool_size equals the number
\* of clients in its cache _clients (active_clients of get_manager_stats).
C33_PoolSizeIsCacheSize ==
    connection_pool_size = Cardinality({s \in Services : m_clients[s] # 0})

\* C34: a get_<service>_client call that raises leaves the client cache
\* _clients and connection_pool_size as they were: no step of the call, from
\* its start to the raise, changes them; only the step that returns a newly
\* connected client does.
C34_RaiseLeavesCache ==
    [][(op' \in {"get_client", "get_client_start"} /\ ret' # "client") =>
         UNCHANGED <<m_clients, connection_pool_size>>]_vars

C34_Witness ==
    /\ op = "get_client"
    /\ ret = "ServiceCommunicationError"
    /\ seen \in ProbeOutcomes
    /\ connection_pool_size = 1
    /\ \E s \in Services : m_clients[s] # 0 /\ is_connected(m_clients[s])

\* C35: a connect() that raises leaves the pool as it was before the call,
\* so every address in the pool has a channel whose probe succeeded for at
\* least one client, or a connect() to it is still probing.
C35_PooledWereProbed ==
    \A a \in Addrs :
        channels[a] # 0 =>
            \/ chans[channels[a]].probed
            \/ \E c \in Clients : conn_pc[c] = "probing" /\ c_channel[c] = channels[a]

\* C36: in every state of a client, also with several _make_call
\* invocations in flight, error_count <= total_calls; total_calls grows, by
\* one, exactly in the step in which the breaker admits a call, and a call
\* rejected with "Circuit breaker open" changes neither counter.
C36_CountersConsistent ==
    /\ [](error_count <= call_count)
    /\ [][/\ (call_count' # call_count) <=>
                (\E c \in Callers : call_pc[c] = "idle" /\ call_pc'[c] = "executing")
          /\ call_count' \in {call_count, call_count + 1}
          /\ ((\E c \in Callers : MakeCallStart(c)) /\ ret' = "Circuit breaker open") =>
                UNCHANGED <<call_count, error_count>>]_vars

C36_Witness ==
    /\ op = "make_call"
    /\ ret = "Circuit breaker open"
    /\ \E c \in Callers : call_pc[c] = "executing"
    /\ error_count >= 1
    /\ error_count < call_count

\* C37: a get_configuration call that raises (client not connected, invalid
\* key, key not found, error status, malformed response, timeout, connection
\* error) adds or changes no cache entry and no expiry: no step of the call,
\* from its start to the raise, changes _cache or _cache_ttl.
C37_RaiseLeavesCache ==
    [][(op' \in {"get_configuration", "get_configuration_start"} /\ ret' # "value") =>
         UNCHANGED <<cfg_cache, cfg_cache_ttl>>]_vars

C37_Witness ==
    /\ op = "get_configuration"
    /\ ret = "ConfigurationError"
    /\ seen = "missing field"
    /\ cache_key(key_arg, env_arg) \in DOMAIN cfg_cache
    /\ ~is_cache_valid(cfg_cache_ttl, cache_key(key_arg, env_arg), now)

\* C38: of the get_configuration calls in flight for one key and environment
\* at most one has issued a remote fetch.
C38_SingleFetchPerKey ==
    \A t1, t2 \in ConfigTasks :
        (/\ t1 # t2
         /\ g_pc[t1] = "fetching" /\ ~g_notify[t1]
         /\ g_pc[t2] = "fetching" /\ ~g_notify[t2]) =>
            cache_key(g_key[t1], g_env[t1]) # cache_key(g_key[t2], g_env[t2])

\* The fetch outcomes get_configuration raises as ConfigurationError.
ConfigurationErrorOutcomes ==
    {"404", "500", "status", "bad json", "missing field", "timeout", "connect error"}

\* C39: when the re-fetch of trigger_update_notification(key) fails with a
\* ConfigurationError, the call raises nothing and invokes no callback, and
\* it restores no entry: a re-fetch that raises before its await leaves the
\* key without entries, one that raises after it leaves the cache as it is.
C39_FailedRefetchSwallowed ==
    [][/\ (op' = "trigger_update_notification" /\ seen' = "raise") =>
             /\ ret' = "none"
             /\ invoked' = <<>>
             /\ \A x \in DOMAIN cfg_cache' \cup DOMAIN cfg_cache_ttl' : x[1] # key_arg'
       /\ \A t \in ConfigTasks :
             (/\ g_pc[t] = "fetching" /\ g_notify[t] /\ g_pc'[t] = "idle"
              /\ op' = "trigger_update_notification"
              /\ seen' \in ConfigurationErrorOutcomes) =>
                /\ ret' = "none"
                /\ invoked' = <<>>
                /\ UNCHANGED <<cfg_cache, cfg_cache_ttl>>]_vars

C39_Witness ==
    /\ op = "trigger_update_notification"
    /\ seen = "timeout"
    /\ ret = "none"
    /\ invoked = <<>>
    /\ MatchingFrom(subscribers, 1, key_arg) # <<>>
    /\ \A x \in DOMAIN cfg_cache : x[1] # key_arg

\* C40: once shutdown_event is set while run() is serving, shutdown() is
\* eventually executed: run() does not wait forever for a server that only
\* shutdown() would stop.
C40_ShutdownRuns ==
    (shutdown_event /\ server_pc = "serving") ~> (server_pc = "stopped")

====
